---------------------------- MODULE Spec2Model ----------------------------
(***************************************************************************)
(* Model of the spin-wheel repository: the ticket -> angle index, the      *)
(* targeted / natural spin planners, the winner resolution of WheelApp,    *)
(* the WheelApp component (queue consumption, animation frames, popup),    *)
(* the in-memory wheel storage and the admin fixed-ticket route, the       *)
(* legacy index planner, the snapshot storage (draft, publish, retention), *)
(* the signed session cookie, the upload and publish routes, the frames of *)
(* one spin on the easing curve and the pointer colour.                    *)
(*                                                                         *)
(* Angles are fixed-point numbers in millidegrees (1 degree = 1000), times *)
(* are milliseconds.  Math.random() is a draw k / RandDen, k in            *)
(* 0 .. RandDen-1; a product with a draw is rounded down to the grid.      *)
(* Ticket numbers and names are natural numbers standing for the strings.  *)
(***************************************************************************)
EXTENDS Integers, Sequences, FiniteSets, TLC

(***************************************************************************)
(* Bounds of the model                                                     *)
(***************************************************************************)
\* Math.random() draws are k / RandDen for k in 0 .. RandDen-1
RandDen == 4
\* spins one mounted wheel may start (caps spinCountRef)
MaxSpins == 4
\* page loads (mounts of the wheel) in one behaviour
MaxLoads == 2
\* idle-drift steps of one mounted wheel
MaxDrift == 1
\* changes of the props of a mounted wheel in one behaviour
MaxPropChanges == 1
\* the wheel's spins use the draws 0 .. WheelDrawMax (out of RandDen)
WheelDrawMax == 0
\* presses of the header button 'New' on one mounted wheel
MaxNew == 1
\* admin requests in one behaviour
MaxRequests == 3
\* calls of the storage functions in one behaviour of the publish runs
MaxStorageCalls == 4
\* successful publishes in one behaviour of the retention runs
MaxPublishes == 12
\* publishes of one behaviour that get the timestamp of an earlier publish
MaxSameMs == 1
\* milliseconds between two animation frames of a spin
FrameMs == 6000
\* milliseconds of idle frames covered by one drift step
DriftMs == 3000

(***************************************************************************)
(* Program constants                                                       *)
(***************************************************************************)
BaseDuration == 11000
MaxQueueLen == 3

Deg(d) == d * 1000
FullTurn == Deg(360)
Draws == 0 .. (RandDen - 1)
\* floor(Math.random() * x) on the grid, for the draw k
Rand(k, x) == (k * x) \div RandDen

Abs(x) == IF x < 0 THEN -x ELSE x
MinOf(S) == CHOOSE x \in S : \A y \in S : x <= y
MaxOf(S) == CHOOSE x \in S : \A y \in S : x >= y
MinNum(a, b) == IF a < b THEN a ELSE b
MaxNum(a, b) == IF a > b THEN a ELSE b

\* JavaScript's % : the result takes the sign of the dividend
JsMod(a, b) == IF a >= 0 THEN a % b ELSE -((-a) % b)

\* ((x % 360) + 360) % 360
Normalize360(x) == JsMod(JsMod(x, FullTurn) + FullTurn, FullTurn)

Null == 0 - 1
Profiles == <<"A", "B", "C">>

(***************************************************************************)
(* lib/ticket-angle-mapper.ts                                              *)
(***************************************************************************)
\* index (0-based) of the last entry carrying ticket t: Map.set overwrites
LastIndexOf(entries, t) ==
    MaxOf({i \in 1 .. Len(entries) : entries[i].ticketNumber = t}) - 1

\* a map that stores the start of each segment instead of its centre
buildTicketAngleMapOfSliceStarts(entries) ==
    IF Len(entries) = 0
    THEN [ticketToAngle |-> <<>>, ticketToIndex |-> <<>>]
    ELSE LET sliceAngle == FullTurn \div Len(entries)
             tickets == {entries[i].ticketNumber : i \in 1 .. Len(entries)}
         IN [ticketToAngle |->
                [t \in tickets |->
                    Normalize360(LastIndexOf(entries, t) * sliceAngle - Deg(90))],
             ticketToIndex |->
                [t \in tickets |-> LastIndexOf(entries, t)]]

buildTicketAngleMap(entries) ==
    IF Len(entries) = 0
    THEN [ticketToAngle |-> <<>>, ticketToIndex |-> <<>>]
    ELSE LET sliceAngle == FullTurn \div Len(entries)
             tickets == {entries[i].ticketNumber : i \in 1 .. Len(entries)}
             center(index) == (index * sliceAngle - Deg(90)) + sliceAngle \div 2
         IN [ticketToAngle |->
                [t \in tickets |-> Normalize360(center(LastIndexOf(entries, t)))],
             ticketToIndex |->
                [t \in tickets |-> LastIndexOf(entries, t)]]

\* a lookup that answers angle 0 for an identifier it does not hold
getAngleForTicketOrZero(ticketNumber, ticketAngleMap) ==
    IF ticketNumber \in DOMAIN ticketAngleMap.ticketToAngle
    THEN ticketAngleMap.ticketToAngle[ticketNumber]
    ELSE 0

\* ticketAngleMap.ticketToAngle.get(ticketNumber) ?? null
getAngleForTicket(ticketNumber, ticketAngleMap) ==
    IF ticketNumber \in DOMAIN ticketAngleMap.ticketToAngle
    THEN ticketAngleMap.ticketToAngle[ticketNumber]
    ELSE Null

\* a TicketAngleMap with the same ticketToAngle and another ticketToIndex:
\* the positions counted from the end of the list
ReindexedMap(ticketAngleMap) ==
    [ticketAngleMap EXCEPT
        !.ticketToIndex = [t \in DOMAIN @ |-> (Cardinality(DOMAIN @) - 1) - @[t]]]

(***************************************************************************)
(* lib/fixed-spin-physics.ts                                               *)
(***************************************************************************)
\* selectedProfile = profile || ['A','B','C'][floor(random * 3)]
SelectProfile(profile, kPick) ==
    IF profile # "none" THEN profile ELSE Profiles[Rand(kPick, 3) + 1]

\* the switch: rotations in tenths of a turn, micro offset range in
\* millidegrees, duration spread in ms
ProfileParams(p) ==
    CASE p = "A" -> [minRot10 |-> 55, maxRot10 |-> 82, baseMicro |-> 3000, spread |-> 500]
      [] p = "B" -> [minRot10 |-> 60, maxRot10 |-> 78, baseMicro |-> 2500, spread |-> 400]
      [] p = "C" -> [minRot10 |-> 52, maxRot10 |-> 85, baseMicro |-> 3500, spread |-> 600]
      [] OTHER   -> [minRot10 |-> 50, maxRot10 |-> 80, baseMicro |-> 4000, spread |-> 0]

\* a duration that adds the random share without centring it on 11000
ProfileDurationUncentred(p, kDur) ==
    BaseDuration + Rand(kDur, ProfileParams(p).spread)

\* duration = 11000 + Math.random() * spread - spread / 2
ProfileDuration(p, kDur) ==
    IF p \in {"A", "B", "C"}
    THEN BaseDuration + Rand(kDur, ProfileParams(p).spread) - ProfileParams(p).spread \div 2
    ELSE BaseDuration

\* rotations * 360, rotations = min + Math.random() * (max - min)
TurnDegrees(p, kTurns) ==
    LET pp == ProfileParams(p)
    IN pp.minRot10 * Deg(36) + Rand(kTurns, (pp.maxRot10 - pp.minRot10) * Deg(36))

\* (360 - (currentRotation % 360)) % 360
CurrentPointerAngle(currentRotation) ==
    JsMod(FullTurn - JsMod(currentRotation, FullTurn), FullTurn)

AngleToTarget(targetAngle, currentRotation) ==
    LET d == targetAngle - CurrentPointerAngle(currentRotation)
    IN IF d < 0 THEN d + FullTurn ELSE d

\* a planner without the adaptive clamp (the formula before the 30% rule)
NoClampMicroOffsetRange(p, totalEntries) == ProfileParams(p).baseMicro

\* Math.min(baseMicroOffsetRange, sliceAngle * 0.3)
AdaptiveMicroOffsetRange(p, totalEntries) ==
    LET sliceAngle == FullTurn \div totalEntries
        maxSafeOffset == (sliceAngle * 3) \div 10
    IN MinNum(ProfileParams(p).baseMicro, maxSafeOffset)

\* (Math.random() - 0.5) * adaptiveMicroOffsetRange
MicroOffset(p, totalEntries, kMicro) ==
    ((2 * kMicro - RandDen) * AdaptiveMicroOffsetRange(p, totalEntries))
        \div (2 * RandDen)

\* a planner that takes the target angle from the position stored in
\* ticketToIndex instead of the angle stored in ticketToAngle
calculateFixedSpinByTicketViaIndex(currentRotation, ticketNumber, ticketAngleMap, profile, d) ==
    IF ticketNumber \notin DOMAIN ticketAngleMap.ticketToAngle
    THEN [threw |-> TRUE, endRotation |-> Null, duration |-> Null, profile |-> "none"]
    ELSE LET totalEntries == Cardinality(DOMAIN ticketAngleMap.ticketToAngle)
             sliceAngle == FullTurn \div totalEntries
             targetAngle == Normalize360(ticketAngleMap.ticketToIndex[ticketNumber] * sliceAngle
                                         - Deg(90) + sliceAngle \div 2)
             selectedProfile == SelectProfile(profile, d.pick)
             totalRotation == TurnDegrees(selectedProfile, d.turns)
                              + AngleToTarget(targetAngle, currentRotation)
                              + MicroOffset(selectedProfile, totalEntries, d.micro)
         IN [threw |-> FALSE,
             endRotation |-> currentRotation + totalRotation,
             duration |-> ProfileDuration(selectedProfile, d.dur),
             profile |-> selectedProfile]

\* d = [pick, dur, turns, micro]: the Math.random() draws in call order.
\* threw = TRUE stands for the Error thrown at line 37.
calculateFixedSpinByTicket(currentRotation, ticketNumber, ticketAngleMap, profile, d) ==
    IF ticketNumber \notin DOMAIN ticketAngleMap.ticketToAngle
    THEN [threw |-> TRUE, endRotation |-> Null, duration |-> Null, profile |-> "none"]
    ELSE LET targetAngle == ticketAngleMap.ticketToAngle[ticketNumber]
             selectedProfile == SelectProfile(profile, d.pick)
             totalEntries == Cardinality(DOMAIN ticketAngleMap.ticketToAngle)
             totalRotation == TurnDegrees(selectedProfile, d.turns)
                              + AngleToTarget(targetAngle, currentRotation)
                              + MicroOffset(selectedProfile, totalEntries, d.micro)
         IN [threw |-> FALSE,
             endRotation |-> currentRotation + totalRotation,
             duration |-> ProfileDuration(selectedProfile, d.dur),
             profile |-> selectedProfile]

(***************************************************************************)
(* lib/wheel-physics.ts                                                    *)
(***************************************************************************)
\* d.turns and d.micro are the two Math.random() draws; threw = TRUE stands
\* for the Errors of lines 28 and 32
calculateFixedWinnerRotation(currentRotation, targetWinnerIndex, totalEntries, d) ==
    IF totalEntries = 0
    THEN [threw |-> TRUE, endRotation |-> Null, duration |-> Null]
    ELSE IF targetWinnerIndex < 0 \/ targetWinnerIndex >= totalEntries
    THEN [threw |-> TRUE, endRotation |-> Null, duration |-> Null]
    ELSE LET rotations360 == Deg(5 * 360) + Rand(d.turns, Deg(3 * 360))
             sliceAngle == FullTurn \div totalEntries
             targetSliceStart == targetWinnerIndex * sliceAngle - Deg(90)
             targetSliceCenter == targetSliceStart + sliceAngle \div 2
             normalizedTargetCenter == Normalize360(targetSliceCenter)
             angleToTarget == AngleToTarget(normalizedTargetCenter, currentRotation)
             microOffset == ((2 * d.micro - RandDen) * Deg(4)) \div (2 * RandDen)
             totalRotation == rotations360 + angleToTarget + microOffset
         IN [threw |-> FALSE, endRotation |-> currentRotation + totalRotation,
             duration |-> BaseDuration]

(***************************************************************************)
(* components/WheelApp.jsx: natural plan and winner calculation            *)
(***************************************************************************)
\* spins = 5 + random * 3; endRotation = start + spins * 360 + random * 360
NaturalEndRotation(startRotation, kSpins, kAngle) ==
    startRotation + (Deg(5 * 360) + Rand(kSpins, Deg(3 * 360))) + Rand(kAngle, FullTurn)

SliceStart(i, sliceAngle) == JsMod(i * sliceAngle - Deg(90) + FullTurn, FullTurn)
SliceEnd(i, sliceAngle) == JsMod((i + 1) * sliceAngle - Deg(90) + FullTurn, FullTurn)

\* a slice test without the branch for the slice that wraps across 0/360
InSliceWithoutWrap(pointerAngle, i, sliceAngle) ==
    pointerAngle >= SliceStart(i, sliceAngle) /\ pointerAngle < SliceEnd(i, sliceAngle)

InSlice(pointerAngle, i, sliceAngle) ==
    IF SliceStart(i, sliceAngle) < SliceEnd(i, sliceAngle)
    THEN pointerAngle >= SliceStart(i, sliceAngle) /\ pointerAngle < SliceEnd(i, sliceAngle)
    ELSE pointerAngle >= SliceStart(i, sliceAngle) \/ pointerAngle < SliceEnd(i, sliceAngle)

\* (360 - R) % 360 with R = ((frozenRot % 360) + 360) % 360
PointerAngleInOriginal(frozenRot) ==
    JsMod(FullTurn - Normalize360(frozenRot), FullTurn)

CenterDist(pointerAngle, i, sliceAngle) ==
    LET sliceCenter == JsMod(i * sliceAngle - Deg(90) + sliceAngle \div 2 + FullTurn, FullTurn)
        dist == Abs(pointerAngle - sliceCenter)
    IN IF dist > Deg(180) THEN FullTurn - dist ELSE dist

\* a resolver that takes the nearest centre whether or not a slice holds the
\* pointer angle
ResolveWinnerByNearestCenter(frozenRot, n) ==
    LET sliceAngle == FullTurn \div n
        pointerAngle == PointerAngleInOriginal(frozenRot)
    IN MinOf({i \in 0 .. n - 1 :
                 \A j \in 0 .. n - 1 :
                     CenterDist(pointerAngle, i, sliceAngle)
                         <= CenterDist(pointerAngle, j, sliceAngle)}) % n

\* the slice search loop, the nearest-centre fallback and the final modulo
ResolveWinner(frozenRot, n) ==
    LET sliceAngle == FullTurn \div n
        pointerAngle == PointerAngleInOriginal(frozenRot)
        hits == {i \in 0 .. n - 1 : InSlice(pointerAngle, i, sliceAngle)}
        nearest == MinOf({i \in 0 .. n - 1 :
                      \A j \in 0 .. n - 1 :
                          CenterDist(pointerAngle, i, sliceAngle)
                              <= CenterDist(pointerAngle, j, sliceAngle)})
        selectedIndex == IF hits # {} THEN MinOf(hits) ELSE nearest
    IN selectedIndex % n

\* the colours of the slices, and the colour of the pointer of an empty wheel
Colors == <<"#efb71d", "#24a643", "#4d7ceb", "#d82135">>
Gold == "#ffd700"

\* a pointer colour read without the quarter turn between the slice origin
\* and the pointer
getCurrentPointerColorUnadjusted(finalRotation, n) ==
    IF n = 0
    THEN [segment |-> Null, color |-> Gold]
    ELSE LET safeIndex == (PointerAngleInOriginal(finalRotation) \div (FullTurn \div n)) % n
         IN [segment |-> safeIndex, color |-> Colors[(safeIndex % Len(Colors)) + 1]]

\* getCurrentPointerColor on the rotation finalRotation and a list of n
\* names: the slice under the pointer and its colour
getCurrentPointerColor(finalRotation, n) ==
    IF n = 0
    THEN [segment |-> Null, color |-> Gold]
    ELSE LET sliceAngle == FullTurn \div n
             pointerAngle == PointerAngleInOriginal(finalRotation)
             adjustedAngle == JsMod(pointerAngle + Deg(90), FullTurn)
             index == adjustedAngle \div sliceAngle
             safeIndex == index % n
         IN [segment |-> safeIndex, color |-> Colors[(safeIndex % Len(Colors)) + 1]]


(***************************************************************************)
(* State                                                                   *)
(***************************************************************************)
VARIABLES
    pin,       \* inputs of one planner call: [n, ticket, r, profile, d]
    pout,      \* what the calls on pin returned so far
    snapshot,  \* wheel-storage: currentListSnapshot
    resp,      \* the response of the last admin request
    mounted,   \* HomePage has loaded and rendered WheelApp
    props,     \* the props HomePage passes to WheelApp
    st,        \* WheelApp useState: isSpinning, finalRotation, showWinner, winner, names
    refs,      \* WheelApp useRef values
    spin,      \* the closure of the last spinWheel call (what animate reads)
    timers,    \* pending setTimeout(() => setShowWinner(true), 1000) callbacks
    pending,   \* pending requestIdleCallback(updateNames) callbacks
    hist,      \* counters and logs of the run: what was started, consumed, emitted
    store,     \* lib/storage.ts: adminDraftState, publishedSnapshots, latestSnapshotVersion
    cookie     \* the admin_session cookie the admin requests carry

planVars == <<pin, pout>>
serverVars == <<snapshot, resp>>
wheelVars == <<mounted, props, st, refs, spin, timers, pending, hist>>
vars == <<pin, pout, snapshot, resp, mounted, props, st, refs, spin, timers, pending, hist,
          store, cookie>>

(***************************************************************************)
(* components/WheelApp.jsx: the list memo and the effects of a render      *)
(***************************************************************************)
EmptyMap == [ticketToAngle |-> <<>>, ticketToIndex |-> <<>>]
NoWinner == [name |-> Null, ticketNumber |-> Null, index |-> Null]

\* the useRef values before the first render
InitialRefs(p) ==
    [isInitializedRef |-> FALSE, isInitialMountRef |-> TRUE,
     previousNamesRef |-> <<>>, previousTicketNumbersRef |-> <<>>,
     currentSnapshotVersionRef |-> p.snapshotVersion,
     mapIsNull |-> TRUE, ticketAngleMapRef |-> EmptyMap,
     fixedTicketsQueueRef |-> <<>>, spinCountRef |-> 0,
     namesRef |-> <<>>, ticketNumbersRef |-> <<>>,
     winnerProcessedRef |-> FALSE, animationFrameRef |-> FALSE,
     animationCompletedRef |-> FALSE, isFrozenRef |-> FALSE]

\* the queue the memo copies from the props: the queue, else the legacy ticket
QueueFromProps(p) ==
    IF Len(p.fixedTicketsQueue) > 0 THEN p.fixedTicketsQueue
    ELSE IF p.fixedTicketNumber # Null THEN <<p.fixedTicketNumber>>
    ELSE <<>>

\* the memo takes its (re)initialising branch
MemoReinitialises(p, isSpinning, r) ==
    /\ ~(isSpinning /\ r.isInitializedRef)
    /\ \/ r.previousNamesRef # p.initialNames
       \/ r.previousTicketNumbersRef # p.initialTicketNumbers
       \/ r.isInitialMountRef
    /\ ~isSpinning

\* useMemo stableNames: its value is previousNamesRef of the result
StableNamesMemo(p, isSpinning, r) ==
    IF MemoReinitialises(p, isSpinning, r)
    THEN LET buildMap == Len(p.initialNames) > 0
                         /\ Len(p.initialTicketNumbers) = Len(p.initialNames)
             entries == [idx \in 1 .. Len(p.initialNames) |->
                            [ticketNumber |-> p.initialTicketNumbers[idx],
                             label |-> p.initialNames[idx]]]
         IN [r EXCEPT
                !.previousNamesRef = p.initialNames,
                !.previousTicketNumbersRef = p.initialTicketNumbers,
                !.isInitialMountRef = FALSE,
                !.isInitializedRef = TRUE,
                !.mapIsNull = IF buildMap THEN FALSE ELSE @,
                !.ticketAngleMapRef = IF buildMap THEN buildTicketAngleMap(entries) ELSE @,
                !.fixedTicketsQueueRef = QueueFromProps(p),
                !.spinCountRef = 0]
    ELSE r

\* the body of the effect of lines 175-220 schedules updateNames
SchedulesUpdate(p, s, r) ==
    /\ ~s.isSpinning
    /\ ~(r.isInitializedRef /\ p.snapshotVersion = r.currentSnapshotVersionRef)
    /\ (s.names # r.previousNamesRef \/ p.snapshotVersion # r.currentSnapshotVersionRef)
    /\ Len(r.previousNamesRef) > 0

\* one render with props p and state s, after a render with props pOld and
\* state sOld: the memo, then the effects.  The memo returns a new array
\* exactly when it (re)initialises, so the effect on [stableNames,
\* snapshotVersion, isSpinning] runs when one of the three changed; the two
\* copying effects leave namesRef = stableNames and ticketNumbersRef =
\* initialTicketNumbers.  h.initQueue records the queue of the last
\* (re)initialisation.
Render(pOld, sOld, p, s, r, pend, h) ==
    LET reinit == MemoReinitialises(p, s.isSpinning, r)
        r1 == StableNamesMemo(p, s.isSpinning, r)
        effectRuns == \/ reinit
                      \/ p.snapshotVersion # pOld.snapshotVersion
                      \/ s.isSpinning # sOld.isSpinning
    IN [refs |-> [r1 EXCEPT !.namesRef = r1.previousNamesRef,
                            !.ticketNumbersRef = p.initialTicketNumbers],
        pending |-> IF effectRuns /\ SchedulesUpdate(p, s, r1)
                    THEN pend \cup {[names |-> r1.previousNamesRef,
                                     version |-> p.snapshotVersion]}
                    ELSE pend,
        hist |-> IF reinit THEN [h EXCEPT !.initQueue = QueueFromProps(p)] ELSE h]

(***************************************************************************)
(* components/WheelApp.jsx: spinWheel                                      *)
(***************************************************************************)
\* a spinWheel that reads the head of the queue and leaves it in place
SpinPlanKeepsHead(startRotation, currentQueue, mapIsNull, map, spinCountBefore, d) ==
    LET ticket == IF Len(currentQueue) > 0 THEN Head(currentQueue) ELSE Null
        spinCount == spinCountBefore + 1
        res == calculateFixedSpinByTicket(startRotation, ticket, map,
                                          Profiles[(spinCount % 3) + 1], d)
    IN IF ticket # Null /\ ~mapIsNull /\ ~res.threw
       THEN [ticket |-> ticket, mode |-> "fixed", endRotation |-> res.endRotation,
             duration |-> res.duration, profile |-> res.profile,
             queue |-> currentQueue, spinCount |-> spinCount]
       ELSE [ticket |-> ticket, mode |-> IF ticket = Null THEN "natural" ELSE "fallback",
             endRotation |-> NaturalEndRotation(startRotation, d.turns, d.micro),
             duration |-> BaseDuration, profile |-> "none",
             queue |-> currentQueue, spinCount |-> spinCount]

\* a spinWheel whose catch branch leaves the rest of the queue in place
SpinPlanFallbackKeepsQueue(startRotation, currentQueue, mapIsNull, map, spinCountBefore, d) ==
    LET ticket == IF Len(currentQueue) > 0 THEN Head(currentQueue) ELSE Null
        queueCopy == IF Len(currentQueue) > 0 THEN Tail(currentQueue) ELSE currentQueue
        spinCount == spinCountBefore + 1
        res == calculateFixedSpinByTicket(startRotation, ticket, map,
                                          Profiles[(spinCount % 3) + 1], d)
    IN IF ticket # Null /\ ~mapIsNull /\ ~res.threw
       THEN [ticket |-> ticket, mode |-> "fixed", endRotation |-> res.endRotation,
             duration |-> res.duration, profile |-> res.profile,
             queue |-> queueCopy, spinCount |-> spinCount]
       ELSE [ticket |-> ticket, mode |-> IF ticket = Null \/ mapIsNull THEN "natural"
                                         ELSE "fallback",
             endRotation |-> NaturalEndRotation(startRotation, d.turns, d.micro),
             duration |-> BaseDuration, profile |-> "none",
             queue |-> queueCopy, spinCount |-> spinCount]

\* a spinWheel that plans every targeted spin with profile A
SpinPlanOneProfile(startRotation, currentQueue, mapIsNull, map, spinCountBefore, d) ==
    LET ticket == IF Len(currentQueue) > 0 THEN Head(currentQueue) ELSE Null
        queueCopy == IF Len(currentQueue) > 0 THEN Tail(currentQueue) ELSE currentQueue
        spinCount == spinCountBefore + 1
        res == calculateFixedSpinByTicket(startRotation, ticket, map, Profiles[1], d)
    IN IF ticket # Null /\ ~mapIsNull /\ ~res.threw
       THEN [ticket |-> ticket, mode |-> "fixed", endRotation |-> res.endRotation,
             duration |-> res.duration, profile |-> res.profile,
             queue |-> queueCopy, spinCount |-> spinCount]
       ELSE [ticket |-> ticket, mode |-> IF ticket = Null \/ mapIsNull THEN "natural"
                                         ELSE "fallback",
             endRotation |-> NaturalEndRotation(startRotation, d.turns, d.micro),
             duration |-> BaseDuration, profile |-> "none",
             queue |-> IF ticket # Null /\ ~mapIsNull THEN <<>> ELSE queueCopy,
             spinCount |-> spinCount]

\* steps 1 and 2 of spinWheel: the mode, the consumed ticket and the plan.
\* mode "fallback" is the catch branch; the natural plan draws its turn count
\* with d.turns and its angle with d.micro.
SpinPlan(startRotation, currentQueue, mapIsNull, map, spinCountBefore, d) ==
    LET ticket == IF Len(currentQueue) > 0 THEN Head(currentQueue) ELSE Null
        queueCopy == IF Len(currentQueue) > 0 THEN Tail(currentQueue) ELSE currentQueue
        spinCount == spinCountBefore + 1
        naturalEnd == NaturalEndRotation(startRotation, d.turns, d.micro)
    IN IF ticket # Null /\ ~mapIsNull
       THEN LET targetAngle == getAngleForTicket(ticket, map)
                selectedProfile == Profiles[(spinCount % 3) + 1]
                fixedResult == calculateFixedSpinByTicket(startRotation, ticket, map,
                                                          selectedProfile, d)
            IN IF targetAngle = Null \/ fixedResult.threw
                  \/ fixedResult.endRotation = Null
               THEN [ticket |-> ticket, mode |-> "fallback", endRotation |-> naturalEnd,
                     duration |-> BaseDuration, profile |-> "none",
                     queue |-> <<>>, spinCount |-> spinCount]
               ELSE [ticket |-> ticket, mode |-> "fixed",
                     endRotation |-> fixedResult.endRotation,
                     duration |-> fixedResult.duration, profile |-> fixedResult.profile,
                     queue |-> queueCopy, spinCount |-> spinCount]
       ELSE [ticket |-> ticket, mode |-> "natural", endRotation |-> naturalEnd,
             duration |-> BaseDuration, profile |-> "none",
             queue |-> queueCopy, spinCount |-> spinCount]

NoSpin ==
    [id |-> 0, startRotation |-> 0, endRotation |-> 0, duration |-> 0, elapsed |-> 0,
     currentNames |-> <<>>, ticket |-> Null, mode |-> "none", profile |-> "none"]

\* a curve that stays on the cubic of the first fifth for the whole spin
EaseCubicOnly(t) == (625 * ((t * t * t) \div 1000)) \div 17

\* ease(t), t in thousandths, result in millionths:
\* k * t^3 below t1 = 0.20, 1 - A * (1 - t)^5 from there on, with
\* Y = 12/17, k = (5/17) / 0.2^3 = 625/17 and A * (1-t)^5 = Y * ((1-t)/0.8)^5
Ease(t) ==
    IF t < 200
    THEN (625 * ((t * t * t) \div 1000)) \div 17
    ELSE LET u == 1000 - t
             x1 == (1000000 * u) \div 800
             x2 == (x1 * u) \div 800
             x3 == (x2 * u) \div 800
             x4 == (x3 * u) \div 800
             x5 == (x4 * u) \div 800
         IN 1000000 - (12 * x5) \div 17

\* an interpolation that runs from the start rotation away from the end
EasedRotationBackwards(startRotation, endRotation, eased) ==
    startRotation - ((endRotation - startRotation) \div 1000) * (eased \div 1000)

\* startRotation + (endRotation - startRotation) * easedProgress
EasedRotation(startRotation, endRotation, eased) ==
    LET delta == endRotation - startRotation
        dh == delta \div 1000
        dl == delta % 1000
        eh == eased \div 1000
        el == eased % 1000
    IN startRotation + dh * eh + (dh * el + dl * eh) \div 1000 + (dl * el) \div 1000000

\* one call of animate, elapsed milliseconds after startTime: the value handed
\* to setFinalRotation, the eased progress (Null on the completing frame) and
\* whether the frame completed the spin
animate(startRotation, endRotation, duration, elapsed) ==
    LET scaled == (elapsed * 1000) \div duration
        progress == IF scaled < 1000 THEN scaled ELSE 1000
    IN IF elapsed < duration
       THEN [rotation |-> EasedRotation(startRotation, endRotation, Ease(progress)),
             eased |-> Ease(progress), completed |-> FALSE]
       ELSE [rotation |-> endRotation, eased |-> Null, completed |-> TRUE]

\* a completion branch that neither marks the animation completed nor
\* cancels its frame
CompletionRefsKeepsRunning(r) == [r EXCEPT !.isFrozenRef = TRUE]

\* the refs as the completion branch of animate leaves them
CompletionRefs(r) ==
    [r EXCEPT !.animationCompletedRef = TRUE, !.animationFrameRef = FALSE,
              !.isFrozenRef = TRUE]

\* a winner calculation that never leaves its initial selectedIndex = 0
WinnerOfInitialIndex(frozenRot, currentNames, currentTicketNumbers) ==
    [name |-> currentNames[1],
     ticketNumber |-> IF Len(currentTicketNumbers) > 0
                      THEN currentTicketNumbers[1] ELSE Null,
     index |-> 0]

\* the winner record of setWinner, from the list captured at spin start
WinnerOf(frozenRot, currentNames, currentTicketNumbers) ==
    LET selectedIndex == ResolveWinner(frozenRot, Len(currentNames))
    IN [name |-> currentNames[selectedIndex + 1],
        ticketNumber |-> IF Len(currentTicketNumbers) > selectedIndex
                         THEN currentTicketNumbers[selectedIndex + 1] ELSE Null,
        index |-> selectedIndex]

(***************************************************************************)
(* lib/wheel-storage.ts and the admin routes                               *)
(***************************************************************************)
EmptySnapshot ==
    [entries |-> <<>>, fixedTicketNumber |-> Null, fixedTicketsQueue |-> <<>>,
     lastUpdated |-> 0]

SeqRange(q) == {q[i] : i \in 1 .. Len(q)}
\* entries.some(e => e.ticketNumber === ticket)
validateTicketNumber(snap, ticket) ==
    \E i \in 1 .. Len(snap.entries) : snap.entries[i].ticketNumber = ticket

\* replaceWheelList: the fixed ticket and the queue are preserved
replaceWheelList(snap, entries, now) ==
    [entries |-> entries, fixedTicketNumber |-> snap.fixedTicketNumber,
     fixedTicketsQueue |-> snap.fixedTicketsQueue, lastUpdated |-> now]

\* setFixedTicketNumber: threw stands for the Error of line 70
setFixedTicketNumber(snap, ticketNumber, now) ==
    IF ticketNumber # Null /\ ~validateTicketNumber(snap, ticketNumber)
    THEN [threw |-> TRUE, snap |-> snap]
    ELSE [threw |-> FALSE,
          snap |-> [snap EXCEPT !.fixedTicketNumber = ticketNumber, !.lastUpdated = now]]

\* a setFixedTicketsQueue that stores whatever list it is given
setFixedTicketsQueueUnchecked(snap, tickets, now) ==
    [threw |-> FALSE,
     snap |-> [snap EXCEPT !.fixedTicketsQueue = tickets, !.lastUpdated = now]]

\* a setFixedTicketsQueue without the duplicate check of lines 92-96
setFixedTicketsQueueNoDuplicateCheck(snap, tickets, now) ==
    IF Len(tickets) > MaxQueueLen
    THEN [threw |-> TRUE, snap |-> snap]
    ELSE IF \E i \in 1 .. Len(tickets) : ~validateTicketNumber(snap, tickets[i])
    THEN [threw |-> TRUE, snap |-> snap]
    ELSE [threw |-> FALSE,
          snap |-> [snap EXCEPT !.fixedTicketsQueue = tickets, !.lastUpdated = now]]

\* setFixedTicketsQueue: threw stands for the Errors of lines 89, 95 and 102
setFixedTicketsQueue(snap, tickets, now) ==
    IF Len(tickets) > MaxQueueLen
    THEN [threw |-> TRUE, snap |-> snap]
    ELSE IF Cardinality(SeqRange(tickets)) # Len(tickets)
    THEN [threw |-> TRUE, snap |-> snap]
    ELSE IF \E i \in 1 .. Len(tickets) : ~validateTicketNumber(snap, tickets[i])
    THEN [threw |-> TRUE, snap |-> snap]
    ELSE [threw |-> FALSE,
          snap |-> [snap EXCEPT !.fixedTicketsQueue = tickets, !.lastUpdated = now]]

clearFixedTicketsQueue(snap, now) ==
    [snap EXCEPT !.fixedTicketsQueue = <<>>, !.lastUpdated = now]

clearFixedTicket(snap, now) ==
    [snap EXCEPT !.fixedTicketNumber = Null, !.lastUpdated = now]

\* Date.now() of the next request: later than the stored timestamps
Now == MaxNum(snapshot.lastUpdated, store.now) + 1

NoRequest ==
    [seq |-> 0, route |-> "none", authed |-> FALSE, tickets |-> <<>>,
     ticketNumber |-> Null, files |-> <<>>, status |-> 0]

\* POST /api/admin/fixed-ticket with body.tickets
PostFixedTicketsQueue(authenticated, tickets) ==
    /\ resp.seq < MaxRequests
    /\ LET r == setFixedTicketsQueue(snapshot, tickets, Now)
           status == IF ~authenticated THEN 401 ELSE IF r.threw THEN 400 ELSE 200
       IN /\ resp' = [seq |-> resp.seq + 1, route |-> "fixed-tickets-queue",
                      authed |-> authenticated, tickets |-> tickets,
                      ticketNumber |-> Null, files |-> <<>>, status |-> status]
          /\ snapshot' = IF authenticated THEN r.snap ELSE snapshot
          /\ hist' = IF status = 200 THEN [hist EXCEPT !.consumedLog = <<>>] ELSE hist
    /\ UNCHANGED <<store, cookie, pin, pout, mounted, props, st, refs, spin, timers, pending>>

\* POST /api/admin/fixed-ticket with body.ticketNumber (legacy)
PostFixedTicketNumber(authenticated, ticketNumber) ==
    /\ resp.seq < MaxRequests
    /\ LET valid == ticketNumber = Null \/ validateTicketNumber(snapshot, ticketNumber)
           r == setFixedTicketNumber(snapshot, ticketNumber, Now)
           status == IF ~authenticated THEN 401 ELSE IF ~valid THEN 400
                     ELSE IF r.threw THEN 500 ELSE 200
       IN /\ resp' = [seq |-> resp.seq + 1, route |-> "fixed-ticket-number",
                      authed |-> authenticated, tickets |-> <<>>,
                      ticketNumber |-> ticketNumber, files |-> <<>>, status |-> status]
          /\ snapshot' = IF authenticated /\ valid THEN r.snap ELSE snapshot
          /\ hist' = IF status = 200 THEN [hist EXCEPT !.consumedLog = <<>>] ELSE hist
    /\ UNCHANGED <<store, cookie, pin, pout, mounted, props, st, refs, spin, timers, pending>>

\* the admin replaces the list: replaceWheelList with the parsed participants
ReplaceList(entries) ==
    /\ resp.seq < MaxRequests
    /\ resp' = [seq |-> resp.seq + 1, route |-> "upload", authed |-> TRUE,
                tickets |-> <<>>, ticketNumber |-> Null, files |-> <<>>, status |-> 200]
    /\ snapshot' = replaceWheelList(snapshot, entries, Now)
    /\ UNCHANGED <<store, cookie, pin, pout, mounted, props, st, refs, spin, timers, pending, hist>>

\* clearFixedTicketsQueue()
ClearQueue ==
    /\ resp.seq < MaxRequests
    /\ resp' = [seq |-> resp.seq + 1, route |-> "clear-queue", authed |-> TRUE,
                tickets |-> <<>>, ticketNumber |-> Null, files |-> <<>>, status |-> 200]
    /\ snapshot' = clearFixedTicketsQueue(snapshot, Now)
    /\ UNCHANGED <<store, cookie, pin, pout, mounted, props, st, refs, spin, timers, pending, hist>>

\* clearFixedTicket()
ClearTicket ==
    /\ resp.seq < MaxRequests
    /\ resp' = [seq |-> resp.seq + 1, route |-> "clear-ticket", authed |-> TRUE,
                tickets |-> <<>>, ticketNumber |-> Null, files |-> <<>>, status |-> 200]
    /\ snapshot' = clearFixedTicket(snapshot, Now)
    /\ UNCHANGED <<store, cookie, pin, pout, mounted, props, st, refs, spin, timers, pending, hist>>

(***************************************************************************)
(* lib/storage.ts: the admin draft and the published snapshots             *)
(***************************************************************************)
MaxEntries == 3000
MaxSnapshots == 10
\* an optional field that is not set (undefined)
Undefined == 0 - 999
\* the empty string as a ticket number
EmptyString == 0

\* the spinConfig of the initial and of the cleared draft; a sequence that
\* is not set is the empty sequence (the validation treats both alike)
NaturalConfig ==
    [mode |-> "natural", fixedWinnerIndex |-> Undefined,
     fixedWinnerTicketNumber |-> Undefined, sequence |-> <<>>,
     fallbackToNatural |-> TRUE]

InitialDraft ==
    [entries |-> <<>>, spinConfig |-> NaturalConfig, lastModified |-> 0,
     validationErrors |-> <<>>]

NoSnapshot ==
    [version |-> Null, entries |-> <<>>, spinConfig |-> NaturalConfig,
     metadata |-> [createdAt |-> Null, createdBy |-> "none", entryCount |-> 0,
                   previousVersion |-> Null],
     checksum |-> <<>>]

NoCall == [op |-> "none", success |-> TRUE, errors |-> <<>>, snapshot |-> NoSnapshot]

\* the module state (draft, published, latest), the last value of
\* Date.now() (now), the result of the last call (result), and the record of
\* the run: the snapshots published in order, the publishes that reused the
\* timestamp of the call before, the calls made
InitialStore ==
    [draft |-> InitialDraft, published |-> <<>>, latest |-> Null, now |-> 0,
     result |-> NoCall, history |-> <<>>, sameMs |-> 0, calls |-> 0]

\* `${firstName} ${lastName}`.trim() for names that are not blank
DisplayName(participant) == <<participant.firstName, participant.lastName>>

\* setAdminDraftEntries: a new entries array replaces the one of the draft
setAdminDraftEntries(draft, participants, now) ==
    [draft EXCEPT
        !.entries = [i \in 1 .. Len(participants) |->
                        [displayName |-> DisplayName(participants[i]),
                         ticketNumber |-> participants[i].ticketNumber,
                         participant |-> participants[i]]],
        !.lastModified = now,
        !.validationErrors = <<>>]

\* setAdminDraftSpinConfig: the given object replaces the one of the draft
setAdminDraftSpinConfig(draft, config, now) ==
    [draft EXCEPT !.spinConfig = config, !.lastModified = now]

\* a clearWheelEntries that also drops the published snapshots
clearWheelEntriesAndSnapshots(m, now) ==
    [m EXCEPT !.draft = [InitialDraft EXCEPT !.lastModified = now],
              !.published = <<>>, !.latest = Null]

\* clearWheelEntries: a new draft object replaces the draft
clearWheelEntries(m, now) ==
    [m EXCEPT !.draft = [InitialDraft EXCEPT !.lastModified = now]]

Repeat(e, n) == [i \in 1 .. n |-> e]

\* a validation without the loop over duplicate ticket numbers
validateAdminDraftStateNoDuplicates(draft) ==
    LET n == Len(draft.entries)
        cfg == draft.spinConfig
        tickets == {draft.entries[i].ticketNumber : i \in 1 .. n}
        ticketNumber == cfg.fixedWinnerTicketNumber
        index == cfg.fixedWinnerIndex
        noTicket == ticketNumber = Undefined \/ ticketNumber = EmptyString
        fixedErrors ==
            IF cfg.mode # "fixed" THEN <<>>
            ELSE IF noTicket /\ index = Undefined
            THEN <<"Fixed mode requires selecting a winner">>
            ELSE IF ~noTicket
            THEN IF ticketNumber \notin tickets
                 THEN <<"Ticket number not found in entries">> ELSE <<>>
            ELSE IF index < 0 \/ index >= n
            THEN <<"Invalid fixedWinnerIndex">> ELSE <<>>
        errors == (IF n = 0 THEN <<"No entries to publish">> ELSE <<>>)
                  \o (IF n > MaxEntries THEN <<"Too many entries">> ELSE <<>>)
                  \o fixedErrors
                  \o (IF cfg.mode = "mixed" /\ Len(cfg.sequence) = 0
                      THEN <<"Mixed mode requires sequence">> ELSE <<>>)
    IN [valid |-> Len(errors) = 0, errors |-> errors]

\* validateAdminDraftState: the error list in the order of the pushes; the
\* loop pushes one duplicate error for every entry whose ticket was seen
validateAdminDraftState(draft) ==
    LET n == Len(draft.entries)
        cfg == draft.spinConfig
        tickets == {draft.entries[i].ticketNumber : i \in 1 .. n}
        ticketNumber == cfg.fixedWinnerTicketNumber
        index == cfg.fixedWinnerIndex
        noTicket == ticketNumber = Undefined \/ ticketNumber = EmptyString
        fixedErrors ==
            IF cfg.mode # "fixed" THEN <<>>
            ELSE IF noTicket /\ index = Undefined
            THEN <<"Fixed mode requires selecting a winner">>
            ELSE IF ~noTicket
            THEN IF ticketNumber \notin tickets
                 THEN <<"Ticket number not found in entries">> ELSE <<>>
            ELSE IF index < 0 \/ index >= n
            THEN <<"Invalid fixedWinnerIndex">> ELSE <<>>
        errors == (IF n = 0 THEN <<"No entries to publish">> ELSE <<>>)
                  \o (IF n > MaxEntries THEN <<"Too many entries">> ELSE <<>>)
                  \o Repeat("Duplicate ticket number", n - Cardinality(tickets))
                  \o fixedErrors
                  \o (IF cfg.mode = "mixed" /\ Len(cfg.sequence) = 0
                      THEN <<"Mixed mode requires sequence">> ELSE <<>>)
    IN [valid |-> Len(errors) = 0, errors |-> errors]

\* the SHA-256 of the JSON of the four fields: two snapshots have the same
\* checksum exactly when the four fields are the same
calculateChecksum(snap) ==
    <<snap.version, snap.entries, snap.spinConfig, snap.metadata>>

\* the versions the pruning loop keeps: the MaxSnapshots largest by parseInt
KeptVersions(versions) ==
    IF Cardinality(versions) > MaxSnapshots
    THEN {v \in versions : Cardinality({u \in versions : u > v}) < MaxSnapshots}
    ELSE versions

\* publishSnapshot at Date.now() = now; the version is that timestamp
publishSnapshot(m, createdBy, now) ==
    LET validation == validateAdminDraftState(m.draft)
    IN IF ~validation.valid
       THEN [success |-> FALSE, errors |-> validation.errors, snapshot |-> NoSnapshot,
             state |-> m]
       ELSE IF Len(m.draft.entries) = 0
       THEN [success |-> FALSE, errors |-> <<"Cannot create snapshot">>,
             snapshot |-> NoSnapshot, state |-> m]
       ELSE LET version == now
                snap == [version |-> version, entries |-> m.draft.entries,
                         spinConfig |-> m.draft.spinConfig,
                         metadata |-> [createdAt |-> now, createdBy |-> createdBy,
                                       entryCount |-> Len(m.draft.entries),
                                       previousVersion |-> m.latest]]
                finalSnapshot == [version |-> snap.version, entries |-> snap.entries,
                                  spinConfig |-> snap.spinConfig,
                                  metadata |-> snap.metadata,
                                  checksum |-> calculateChecksum(snap)]
                keep == KeptVersions(DOMAIN m.published \cup {version})
            IN [success |-> TRUE, errors |-> <<>>, snapshot |-> finalSnapshot,
                state |-> [m EXCEPT
                              !.published = [v \in keep |->
                                                IF v = version THEN finalSnapshot
                                                ELSE m.published[v]],
                              !.latest = version]]

getSnapshotByVersion(m, version) ==
    IF version \notin DOMAIN m.published THEN NoSnapshot
    ELSE IF m.published[version].checksum # calculateChecksum(m.published[version])
    THEN NoSnapshot
    ELSE m.published[version]

getLatestSnapshot(m) ==
    IF m.latest = Null THEN NoSnapshot ELSE getSnapshotByVersion(m, m.latest)

\* a call of setAdminDraftEntries at Date.now() = now
SetAdminDraftEntries(participants, now) ==
    /\ store' = [store EXCEPT
                    !.draft = setAdminDraftEntries(@, participants, now),
                    !.now = now, !.calls = @ + 1,
                    !.result = [NoCall EXCEPT !.op = "setAdminDraftEntries"]]
    /\ UNCHANGED <<cookie, pin, pout, snapshot, resp, mounted, props, st, refs, spin,
                   timers, pending, hist>>

\* a call of setAdminDraftSpinConfig at Date.now() = now
SetAdminDraftSpinConfig(config, now) ==
    /\ store' = [store EXCEPT
                    !.draft = setAdminDraftSpinConfig(@, config, now),
                    !.now = now, !.calls = @ + 1,
                    !.result = [NoCall EXCEPT !.op = "setAdminDraftSpinConfig"]]
    /\ UNCHANGED <<cookie, pin, pout, snapshot, resp, mounted, props, st, refs, spin,
                   timers, pending, hist>>

\* a call of clearWheelEntries at Date.now() = now
ClearWheelEntries(now) ==
    /\ store' = [clearWheelEntries(store, now) EXCEPT
                    !.now = now, !.calls = @ + 1,
                    !.result = [NoCall EXCEPT !.op = "clearWheelEntries"]]
    /\ UNCHANGED <<cookie, pin, pout, snapshot, resp, mounted, props, st, refs, spin,
                   timers, pending, hist>>

\* the store after publishSnapshot returned r at Date.now() = now
StoreAfterPublish(r, now) ==
    [r.state EXCEPT
        !.now = now, !.calls = @ + 1,
        !.result = [op |-> "publishSnapshot", success |-> r.success,
                    errors |-> r.errors, snapshot |-> r.snapshot],
        !.history = IF r.success THEN Append(@, r.snapshot) ELSE @,
        !.sameMs = IF r.success /\ now \in DOMAIN store.published THEN @ + 1 ELSE @]

\* a call of publishSnapshot at Date.now() = now
PublishSnapshot(createdBy, now) ==
    /\ store' = StoreAfterPublish(publishSnapshot(store, createdBy, now), now)
    /\ UNCHANGED <<cookie, pin, pout, snapshot, resp, mounted, props, st, refs, spin,
                   timers, pending, hist>>

(***************************************************************************)
(* lib/auth.ts: the signed session cookie                                  *)
(***************************************************************************)
\* SESSION_DURATION, in ms
SessionDuration == 24 * 60 * 60 * 1000
\* getSessionSecret()
ServerSecret == "SESSION_SECRET"
\* the HMAC-SHA256 of a payload under a key: two signatures are equal
\* exactly when key and payload are
Hmac(secret, payload) == [key |-> secret, data |-> payload]

NoSession == [username |-> "none", expiresAt |-> Null]
\* the request carries no admin_session cookie
NoCookie ==
    [present |-> FALSE, wellFormed |-> FALSE, payload |-> NoSession,
     signature |-> Hmac("none", NoSession)]

\* createSession at Date.now() = now: payload.signature
createSession(username, now) ==
    LET sessionData == [username |-> username, expiresAt |-> now + SessionDuration]
    IN [present |-> TRUE, wellFormed |-> TRUE, payload |-> sessionData,
        signature |-> Hmac(ServerSecret, sessionData)]

\* verifySession on the cookie of the request at Date.now() = now;
\* wellFormed: the token splits at '.' into a payload and a signature
verifySession(token, now) ==
    IF ~token.present THEN NoSession
    ELSE IF ~token.wellFormed THEN NoSession
    ELSE IF token.signature # Hmac(ServerSecret, token.payload) THEN NoSession
    ELSE IF now > token.payload.expiresAt THEN NoSession
    ELSE token.payload

\* an authentication that only looks for the cookie
isAuthenticatedByPresence(token, now) == token.present

isAuthenticated(token, now) == verifySession(token, now) # NoSession

(***************************************************************************)
(* lib/excel-parser.ts and POST /api/admin/upload                          *)
(***************************************************************************)
\* an empty cell
Blank == 0
RequiredColumns == {"first name", "last name", "ticket number"}

\* a data row holds its three values
CompleteRow(row) ==
    row.firstName # Blank /\ row.lastName # Blank /\ row.ticketNumber # Blank

\* the rows of s, in order, that are the first of s with their ticket number
FirstOfTicket(s) ==
    LET n == Len(s)
        unique == Cardinality({s[i].ticketNumber : i \in 1 .. n}) = n
        first(i) == unique \/ ~\E j \in 1 .. i - 1 : s[j].ticketNumber = s[i].ticketNumber
        idx == SelectSeq([i \in 1 .. n |-> i], first)
    IN [k \in 1 .. Len(idx) |-> s[idx[k]]]

\* parseExcelFile on a sheet of a header row and data rows: a file is
\* [name, headers, rows], headers the normalised header names, a row
\* [firstName, lastName, ticketNumber]
parseExcelFile(file) ==
    IF 1 + Len(file.rows) < 2
    THEN [participants |-> <<>>, totalRows |-> 0,
          errors |-> <<"Excel file must contain at least a header row and one data row">>]
    ELSE IF ~(RequiredColumns \subseteq file.headers)
    THEN [participants |-> <<>>, totalRows |-> 0,
          errors |-> <<"Missing required columns">>]
    ELSE LET emptyRow(row) == row.firstName = Blank /\ row.lastName = Blank
                              /\ row.ticketNumber = Blank
             incomplete == {i \in 1 .. Len(file.rows) :
                               ~emptyRow(file.rows[i]) /\ ~CompleteRow(file.rows[i])}
             complete == SelectSeq(file.rows, CompleteRow)
             participants == FirstOfTicket(complete)
             rowErrors == Repeat("Row: missing required fields", Cardinality(incomplete))
                          \o Repeat("Row: duplicate ticket number",
                                    Len(complete) - Len(participants))
         IN [participants |-> participants, totalRows |-> Len(participants),
             errors |-> rowErrors
                        \o (IF Len(participants) > MaxEntries
                            THEN <<"File contains too many rows">> ELSE <<>>)]

\* combineParticipants on one array: the first participant of every ticket
\* number (the random trim of lines 157-166 applies above MaxEntries only)
combineParticipants(participants) == FirstOfTicket(participants)

\* the loop of the route over the files: what each file adds to
\* allParticipants and to errors
RECURSIVE ParseAll(_)
ParseAll(files) ==
    IF Len(files) = 0 THEN [participants |-> <<>>, errors |-> <<>>]
    ELSE LET file == Head(files)
             rest == ParseAll(Tail(files))
             parsed == parseExcelFile(file)
         IN IF ~file.excelName
            THEN [participants |-> rest.participants,
                  errors |-> <<"Not an Excel file">> \o rest.errors]
            ELSE IF Len(parsed.participants) > MaxEntries
            THEN [participants |-> rest.participants,
                  errors |-> parsed.errors \o <<"Maximum 3000 rows per file">>
                             \o rest.errors]
            ELSE [participants |-> parsed.participants \o rest.participants,
                  errors |-> parsed.errors \o rest.errors]

\* the entries replaceWheelList builds from the participants
EntriesFromParticipants(participants) ==
    [i \in 1 .. Len(participants) |->
        [ticketNumber |-> participants[i].ticketNumber,
         label |-> DisplayName(participants[i])]]

\* POST /api/admin/upload with the files of the form
PostUpload(authenticated, files) ==
    /\ resp.seq < MaxRequests
    /\ LET all == ParseAll(files)
           combined == combineParticipants(all.participants)
           status == IF ~authenticated THEN 401 ELSE IF Len(files) = 0 THEN 400 ELSE 200
       IN /\ Len(all.participants) <= MaxEntries
          /\ resp' = [seq |-> resp.seq + 1, route |-> "upload", authed |-> authenticated,
                      tickets |-> <<>>, ticketNumber |-> Null, files |-> files,
                      status |-> status]
          /\ snapshot' = IF status = 200
                         THEN replaceWheelList(snapshot, EntriesFromParticipants(combined),
                                               Now)
                         ELSE snapshot
    /\ UNCHANGED <<store, cookie, pin, pout, mounted, props, st, refs, spin, timers,
                   pending, hist>>

(***************************************************************************)
(* POST /api/admin/publish                                                 *)
(***************************************************************************)
\* the body of the request holds no spinConfig
NoOverride == [NaturalConfig EXCEPT !.mode = "none"]

\* POST /api/admin/publish at Date.now() = now
PostPublish(authenticated, spinConfigOverride, now) ==
    /\ resp.seq < MaxRequests
    /\ LET overridden == IF spinConfigOverride # NoOverride
                         THEN [store EXCEPT !.draft =
                                  setAdminDraftSpinConfig(@, spinConfigOverride, now)]
                         ELSE store
           result == publishSnapshot(overridden, "admin", now)
           status == IF ~authenticated THEN 401 ELSE IF ~result.success THEN 400 ELSE 200
       IN /\ resp' = [seq |-> resp.seq + 1, route |-> "publish", authed |-> authenticated,
                      tickets |-> <<>>, ticketNumber |-> Null, files |-> <<>>,
                      status |-> status]
          /\ store' = IF authenticated THEN StoreAfterPublish(result, now) ELSE store
    /\ UNCHANGED <<cookie, pin, pout, snapshot, mounted, props, st, refs, spin, timers,
                   pending, hist>>

(***************************************************************************)
(* app/page.tsx: HomePage loads the list once and mounts WheelApp          *)
(***************************************************************************)
DefaultProps ==
    [initialNames |-> <<301, 302, 303, 304, 305, 306, 307, 308>>,
     initialTicketNumbers |-> <<1, 2, 3, 4, 5, 6, 7, 8>>,
     fixedTicketNumber |-> Null, fixedTicketsQueue |-> <<>>, snapshotVersion |-> Null]

\* updateState of loadList on the data of GET /api/wheel/list
PropsFromSnapshot(snap) ==
    IF Len(snap.entries) > 0
    THEN [initialNames |-> [i \in 1 .. Len(snap.entries) |-> snap.entries[i].label],
          initialTicketNumbers |->
              [i \in 1 .. Len(snap.entries) |-> snap.entries[i].ticketNumber],
          fixedTicketNumber |-> snap.fixedTicketNumber,
          fixedTicketsQueue |-> snap.fixedTicketsQueue,
          snapshotVersion |-> Null]
    ELSE DefaultProps

InitialState(names) ==
    [isSpinning |-> FALSE, finalRotation |-> 0, showWinner |-> FALSE,
     winner |-> NoWinner, names |-> names]

InitialHist ==
    [spinsStarted |-> 0, drift |-> 0, propChanges |-> 0, loads |-> 0, news |-> 0,
     initQueue |-> <<>>, consumedLog |-> <<>>, emitted |-> <<>>, callbacks |-> <<>>,
     startTickets |-> <<>>]

\* WheelApp mounted with props p: the first render
MountWith(p, h) ==
    LET s0 == InitialState(p.initialNames)
        R == Render(p, s0, p, s0, InitialRefs(p), {}, h)
    IN /\ mounted' = TRUE
       /\ props' = p
       /\ refs' = R.refs
       /\ st' = s0
       /\ pending' = R.pending
       /\ hist' = R.hist
       /\ spin' = NoSpin
       /\ timers' = 0

\* the wheel page is (re)loaded: fetch the list, then render the wheel
PageLoad ==
    /\ hist.loads < MaxLoads
    /\ MountWith(PropsFromSnapshot(snapshot), [hist EXCEPT !.loads = @ + 1])
    /\ UNCHANGED <<store, cookie, pin, pout, snapshot, resp>>

(***************************************************************************)
(* components/WheelApp.jsx: the handlers                                   *)
(***************************************************************************)
\* the draws of the wheel's spins
WheelDraws == {[pick |-> 0, dur |-> k, turns |-> k, micro |-> k] : k \in 0 .. WheelDrawMax}

\* the render that follows a handler, with its effects
Rerender(p, s, r, pend, h) ==
    LET R == Render(props, st, p, s, r, pend, h)
    IN refs' = R.refs /\ pending' = R.pending /\ hist' = R.hist

\* a spinWheel whose guard lets a request on an empty list pass
spinWheelOutcomeIgnoresEmptyList(isSpinning, currentNames) ==
    IF isSpinning THEN "returned" ELSE "started"

\* how a call of spinWheel ends: "returned" is the bare return of the guard
\* of line 336 (no value, no effect, the same for both of its conditions),
\* "started" is a run past the guard
spinWheelOutcome(isSpinning, currentNames) ==
    IF isSpinning \/ Len(currentNames) = 0 THEN "returned" ELSE "started"

\* handleWheelClick -> spinWheel, started
ClickSpin(d) ==
    /\ mounted
    /\ ~st.showWinner /\ ~st.isSpinning
    /\ spinWheelOutcome(st.isSpinning, refs.namesRef) = "started"
    /\ hist.spinsStarted < MaxSpins
    /\ LET plan == SpinPlan(st.finalRotation, refs.fixedTicketsQueueRef, refs.mapIsNull,
                            refs.ticketAngleMapRef, refs.spinCountRef, d)
           r1 == [refs EXCEPT !.animationFrameRef = TRUE, !.isFrozenRef = FALSE,
                              !.animationCompletedRef = FALSE,
                              !.winnerProcessedRef = FALSE,
                              !.fixedTicketsQueueRef = plan.queue,
                              !.spinCountRef = plan.spinCount]
           h1 == [hist EXCEPT !.spinsStarted = @ + 1,
                              !.startTickets = refs.ticketNumbersRef,
                              !.consumedLog =
                                  IF plan.ticket # Null
                                  THEN Append(@, [ticket |-> plan.ticket,
                                                  mode |-> plan.mode,
                                                  profile |-> plan.profile])
                                  ELSE @]
       IN /\ st' = [st EXCEPT !.isSpinning = TRUE]
          /\ spin' = [id |-> hist.spinsStarted + 1, startRotation |-> st.finalRotation,
                      endRotation |-> plan.endRotation, duration |-> plan.duration,
                      elapsed |-> 0, currentNames |-> refs.namesRef,
                      ticket |-> plan.ticket, mode |-> plan.mode,
                      profile |-> plan.profile]
          /\ Rerender(props, st', r1, pending, h1)
    /\ UNCHANGED <<store, cookie, pin, pout, snapshot, resp, mounted, props, timers>>

\* a click that starts nothing: the popup is shown, isSpinning is set, or
\* the list of spinWheel is empty
ClickIgnored ==
    /\ mounted
    /\ \/ st.showWinner \/ st.isSpinning
       \/ spinWheelOutcome(st.isSpinning, refs.namesRef) = "returned"
    /\ UNCHANGED vars

\* one call of animate by requestAnimationFrame, FrameMs after the last
Frame ==
    /\ mounted
    /\ refs.animationFrameRef
    /\ IF refs.animationCompletedRef
       THEN /\ refs' = [refs EXCEPT !.animationFrameRef = FALSE]
            /\ UNCHANGED <<st, spin, timers, pending, hist>>
       ELSE LET elapsed == spin.elapsed + FrameMs
                progress == (elapsed * 1000) \div spin.duration
            IN IF elapsed < spin.duration
               THEN /\ st' = [st EXCEPT !.finalRotation =
                                EasedRotation(spin.startRotation, spin.endRotation,
                                              Ease(progress))]
                    /\ spin' = [spin EXCEPT !.elapsed = elapsed]
                    /\ Rerender(props, st', refs, pending, hist)
                    /\ UNCHANGED timers
               ELSE LET r1 == CompletionRefs(refs)
                        w == WinnerOf(spin.endRotation, spin.currentNames,
                                      refs.ticketNumbersRef)
                    IN /\ spin' = [spin EXCEPT !.elapsed = elapsed]
                       /\ IF ~refs.winnerProcessedRef
                          THEN /\ st' = [st EXCEPT !.finalRotation = spin.endRotation,
                                                   !.winner = w, !.isSpinning = FALSE]
                               /\ timers' = timers + 1
                               /\ Rerender(props, st', r1, pending,
                                      [hist EXCEPT !.emitted = Append(@, spin.id),
                                                   !.callbacks = Append(@, spin.id)])
                          ELSE /\ st' = [st EXCEPT !.finalRotation = spin.endRotation]
                               /\ Rerender(props, st', r1, pending, hist)
                               /\ UNCHANGED timers
    /\ UNCHANGED <<store, cookie, pin, pout, snapshot, resp, mounted, props>>

\* one step of animateSlow: the idle frames of DriftMs milliseconds
DriftFrame ==
    /\ mounted
    /\ ~st.isSpinning /\ st.winner = NoWinner /\ ~st.showWinner /\ ~refs.isFrozenRef
    /\ hist.drift < MaxDrift
    /\ st' = [st EXCEPT !.finalRotation =
                 JsMod(@ + (1500 * DriftMs) \div 50, FullTurn)]
    /\ Rerender(props, st', refs, pending, [hist EXCEPT !.drift = @ + 1])
    /\ UNCHANGED <<store, cookie, pin, pout, snapshot, resp, mounted, props, spin, timers>>

\* the timeout set at completion: setShowWinner(true)
PopupTimer ==
    /\ mounted
    /\ timers > 0
    /\ timers' = timers - 1
    /\ st' = [st EXCEPT !.showWinner = TRUE]
    /\ Rerender(props, st', refs, pending, hist)
    /\ UNCHANGED <<store, cookie, pin, pout, snapshot, resp, mounted, props, spin>>

\* handleCloseWinner (the popup is rendered when showWinner && winner)
CloseWinner ==
    /\ mounted
    /\ st.showWinner /\ st.winner # NoWinner
    /\ st' = [st EXCEPT !.showWinner = FALSE, !.winner = NoWinner]
    /\ Rerender(props, st', [refs EXCEPT !.isFrozenRef = FALSE], pending, hist)
    /\ UNCHANGED <<store, cookie, pin, pout, snapshot, resp, mounted, props, spin, timers>>

\* handleRemoveWinner
RemoveWinner ==
    /\ mounted
    /\ st.showWinner /\ st.winner # NoWinner
    /\ LET keep(name) == name # st.winner.name
       IN st' = [st EXCEPT !.names = SelectSeq(@, keep),
                           !.showWinner = FALSE, !.winner = NoWinner]
    /\ Rerender(props, st', [refs EXCEPT !.isFrozenRef = FALSE], pending, hist)
    /\ UNCHANGED <<store, cookie, pin, pout, snapshot, resp, mounted, props, spin, timers>>

\* the header button 'New'
NewButton ==
    /\ mounted
    /\ hist.news < MaxNew
    /\ st' = [st EXCEPT !.names = <<>>, !.finalRotation = 0, !.isSpinning = FALSE,
                        !.showWinner = FALSE, !.winner = NoWinner]
    /\ Rerender(props, st', refs, pending, [hist EXCEPT !.news = @ + 1])
    /\ UNCHANGED <<store, cookie, pin, pout, snapshot, resp, mounted, props, spin, timers>>

\* the parent renders WheelApp with other props
PropsChange(p) ==
    /\ mounted
    /\ hist.propChanges < MaxPropChanges
    /\ p # props
    /\ props' = p
    /\ Rerender(p, st, refs, pending, [hist EXCEPT !.propChanges = @ + 1])
    /\ UNCHANGED <<store, cookie, pin, pout, snapshot, resp, mounted, st, spin, timers>>

\* updateNames, run by requestIdleCallback
IdleUpdateNames ==
    /\ mounted
    /\ \E u \in pending :
          /\ st' = [st EXCEPT !.names = u.names]
          /\ Rerender(props, st',
                 [refs EXCEPT !.currentSnapshotVersionRef = u.version,
                              !.isInitializedRef = TRUE],
                 pending \ {u}, hist)
    /\ UNCHANGED <<store, cookie, pin, pout, snapshot, resp, mounted, props, spin, timers>>

\* no wheel is mounted, no admin request was made
Unmounted ==
    /\ snapshot = EmptySnapshot
    /\ resp = NoRequest
    /\ mounted = FALSE
    /\ props = DefaultProps
    /\ st = InitialState(<<>>)
    /\ refs = InitialRefs(DefaultProps)
    /\ spin = NoSpin
    /\ timers = 0
    /\ pending = {}
    /\ hist = InitialHist
    /\ store = InitialStore
    /\ cookie = NoCookie

(***************************************************************************)
(* The planner and the resolver applied to drawn inputs                    *)
(***************************************************************************)
\* entity counts of the planner runs (8: the T1..T8 scenario, 500: the
\* large-list scenario); each divides 360000 millidegrees evenly
SmallCounts == {1, 2, 3, 4, 8}
LargeCounts == {500}
TicketAt(i) == 100 + i
NameAt(i) == 200 + i
\* an identifier that no list holds
UnknownTicket == TicketAt(0)
\* the list T1 .. Tn, in order
EntityList(n) == [i \in 1 .. n |-> [ticketNumber |-> TicketAt(i), label |-> NameAt(i)]]
StartRotations == {0, Deg(90), 123456, 359999, Deg(725), -Deg(45)}
\* the draws of one call; the duration draw and the turn draw are taken equal
PlanDraws == {[pick |-> 0, dur |-> k, turns |-> k, micro |-> m] : k \in Draws, m \in Draws}
\* every target of a small list, with every draw; the first and the last
\* target of a large list, with every micro-offset draw; an unknown ticket
PlanInputs ==
    {[n |-> n, ticket |-> t, r |-> r, profile |-> p, d |-> d] :
        n \in SmallCounts, t \in {TicketAt(i) : i \in 1 .. 8} \cup {UnknownTicket},
        r \in StartRotations, p \in {"A", "B", "C"}, d \in PlanDraws}
    \cup
    UNION {{[n |-> n, ticket |-> t, r |-> r, profile |-> p, d |-> d] :
               t \in {TicketAt(1), TicketAt(n), UnknownTicket},
               r \in {0, 123456}, p \in {"A", "B", "C"},
               d \in {x \in PlanDraws : x.turns = 0}} : n \in LargeCounts}

NoResult == [threw |-> FALSE, endRotation |-> Null, duration |-> Null, profile |-> "none"]

InitPlanOut ==
    [stage |-> "input", fixed |-> NoResult, reindexed |-> NoResult, lookup |-> Null,
     microOffset |-> 0, natural |-> Null, naturalDuration |-> Null, index |-> Null]

InitPlan ==
    /\ pin \in PlanInputs
    /\ pin.ticket \in {TicketAt(i) : i \in 1 .. pin.n} \cup {UnknownTicket}
    /\ pout = InitPlanOut
    /\ Unmounted

\* getAngleForTicket, then calculateFixedSpinByTicket, on the map of the list
\* and on the same map with another ticketToIndex
PlanTargeted ==
    /\ pout.stage = "input"
    /\ LET map == buildTicketAngleMap(EntityList(pin.n))
           res == calculateFixedSpinByTicket(pin.r, pin.ticket, map, pin.profile, pin.d)
       IN pout' = [pout EXCEPT
               !.stage = "planned",
               !.lookup = getAngleForTicket(pin.ticket, map),
               !.fixed = res,
               !.reindexed = calculateFixedSpinByTicket(pin.r, pin.ticket, ReindexedMap(map),
                                                        pin.profile, pin.d),
               !.microOffset =
                   IF res.threw THEN 0
                   ELSE MicroOffset(res.profile,
                                    Cardinality(DOMAIN map.ticketToAngle), pin.d.micro)]
    /\ UNCHANGED <<store, cookie, pin, snapshot, resp, mounted, props, st, refs, spin, timers, pending, hist>>

\* the natural plan for the same rotation, after a targeted plan that failed:
\* the catch branch of spinWheel, which leaves duration at its initial value
PlanNatural ==
    /\ pout.stage = "planned"
    /\ pout.fixed.threw
    /\ pout' = [pout EXCEPT
            !.stage = "natural",
            !.naturalDuration = BaseDuration,
            !.natural = NaturalEndRotation(pin.r, pin.d.turns, pin.d.micro)]
    /\ UNCHANGED <<store, cookie, pin, snapshot, resp, mounted, props, st, refs, spin, timers, pending, hist>>

\* the winner calculation on the rotation the targeted plan ends at
ResolveTargeted ==
    /\ pout.stage = "planned"
    /\ ~pout.fixed.threw
    /\ pout' = [pout EXCEPT
            !.stage = "resolved",
            !.index = ResolveWinner(pout.fixed.endRotation, pin.n)]
    /\ UNCHANGED <<store, cookie, pin, snapshot, resp, mounted, props, st, refs, spin, timers, pending, hist>>

\* the winner calculation on the rotation of the natural plan
ResolveNatural ==
    /\ pout.stage = "natural"
    /\ pout' = [pout EXCEPT
            !.stage = "resolved",
            !.index = ResolveWinner(pout.natural, pin.n)]
    /\ UNCHANGED <<store, cookie, pin, snapshot, resp, mounted, props, st, refs, spin, timers, pending, hist>>

NextPlan == PlanTargeted \/ PlanNatural \/ ResolveTargeted \/ ResolveNatural

SpecPlan == InitPlan /\ [][NextPlan]_vars

(***************************************************************************)
(* The index-based planner of wheel-physics.ts applied to drawn inputs     *)
(***************************************************************************)
\* entity counts (10: the documented test), every index of the list and the
\* two indexes just outside it
LegacyCounts == {0, 1, 2, 3, 4, 10}
LegacyInputs ==
    {[n |-> n, index |-> i, r |-> r, d |-> d] :
        n \in LegacyCounts, i \in (0 - 1) .. 10, r \in StartRotations, d \in PlanDraws}

InitLegacy ==
    /\ pin \in LegacyInputs
    /\ pin.index <= pin.n
    /\ pout = [stage |-> "input", legacy |-> [threw |-> FALSE, endRotation |-> Null,
                                             duration |-> Null],
               index |-> Null]
    /\ Unmounted

\* calculateFixedWinnerRotation(r, i, N)
PlanLegacy ==
    /\ pout.stage = "input"
    /\ pout' = [pout EXCEPT
            !.stage = "planned",
            !.legacy = calculateFixedWinnerRotation(pin.r, pin.index, pin.n, pin.d)]
    /\ UNCHANGED <<store, cookie, pin, snapshot, resp, mounted, props, st, refs, spin, timers, pending, hist>>

\* the winner calculation for N entries on the rotation the plan ends at
ResolveLegacy ==
    /\ pout.stage = "planned"
    /\ ~pout.legacy.threw
    /\ pout' = [pout EXCEPT
            !.stage = "resolved",
            !.index = ResolveWinner(pout.legacy.endRotation, pin.n)]
    /\ UNCHANGED <<store, cookie, pin, snapshot, resp, mounted, props, st, refs, spin, timers, pending, hist>>

NextLegacy == PlanLegacy \/ ResolveLegacy

SpecLegacy == InitLegacy /\ [][NextLegacy]_vars

(***************************************************************************)
(* The angle index and the slice search on drawn lists and rotations       *)
(***************************************************************************)
\* entity counts: each divides 360000 millidegrees into an even slice width,
\* as N * (360 / N) is exactly 360 in the doubles of the code
ResolveCounts == {1, 2, 3, 4, 5, 6, 8, 12}
\* final rotations around every slice boundary and slice centre of a wheel
\* of n slices, also past a full turn and negative
ResolveRotations(n) ==
    {sign * (Deg(90) + k * (FullTurn \div (2 * n)) + e) + turns * FullTurn :
        k \in 0 .. 2 * n, e \in {0 - 1, 0, 1}, sign \in {0 - 1, 1}, turns \in {0, 5}}
ResolveInputs ==
    UNION {{[n |-> n, frozenRot |-> r] : r \in ResolveRotations(n)} : n \in ResolveCounts}
        \cup {[n |-> 0, frozenRot |-> 0]}

InitResolveOut ==
    [resolved |-> FALSE, pointer |-> Null, hits |-> {}, index |-> Null,
     indexed |-> FALSE, map |-> EmptyMap, colored |-> FALSE, pointerColor |-> Null]

InitResolve ==
    /\ pin \in ResolveInputs
    /\ pout = InitResolveOut
    /\ Unmounted

\* the slice search loop of animate on the final rotation pin.frozenRot
SearchSlice ==
    /\ ~pout.resolved
    /\ pin.n > 0
    /\ LET sliceAngle == FullTurn \div pin.n
           pointerAngle == PointerAngleInOriginal(pin.frozenRot)
       IN pout' = [pout EXCEPT
               !.resolved = TRUE,
               !.pointer = pointerAngle,
               !.hits = {i \in 0 .. pin.n - 1 : InSlice(pointerAngle, i, sliceAngle)},
               !.index = ResolveWinner(pin.frozenRot, pin.n)]
    /\ UNCHANGED <<store, cookie, pin, snapshot, resp, mounted, props, st, refs, spin, timers, pending, hist>>

\* buildTicketAngleMap on the list T1 .. Tn
BuildIndex ==
    /\ ~pout.indexed
    /\ pout' = [pout EXCEPT !.indexed = TRUE,
                            !.map = buildTicketAngleMap(EntityList(pin.n))]
    /\ UNCHANGED <<store, cookie, pin, snapshot, resp, mounted, props, st, refs, spin, timers, pending, hist>>

\* the pointer colour of a render on the rotation pin.frozenRot
PointerColor ==
    /\ ~pout.colored
    /\ pout' = [pout EXCEPT !.colored = TRUE,
                            !.pointerColor = getCurrentPointerColor(pin.frozenRot, pin.n)]
    /\ UNCHANGED <<store, cookie, pin, snapshot, resp, mounted, props, st, refs, spin, timers, pending, hist>>

NextResolve == SearchSlice \/ BuildIndex \/ PointerColor

SpecResolve == InitResolve /\ [][NextResolve]_vars

(***************************************************************************)
(* The frames of one spin on drawn plans and frame times                   *)
(***************************************************************************)
\* the plan of a targeted spin on the list T1 .. T4
FixedStepPlan(r, ticket, profile, d) ==
    LET res == calculateFixedSpinByTicket(r, ticket, buildTicketAngleMap(EntityList(4)),
                                          profile, d)
    IN [startRotation |-> r, endRotation |-> res.endRotation, duration |-> res.duration]
\* natural plans and targeted plans of every profile and duration draw
StepPlans ==
    {[startRotation |-> r, endRotation |-> NaturalEndRotation(r, ks, ka),
      duration |-> BaseDuration] : r \in {0, 123456, -Deg(45)}, ks \in Draws, ka \in Draws}
    \cup
    {FixedStepPlan(r, TicketAt(t), p, d) :
        r \in {0, 123456, -Deg(45)}, t \in {1, 3}, p \in {"A", "B", "C"}, d \in PlanDraws}
\* the readings performance.now() - startTime of the frames of a spin: the
\* first milliseconds, both sides of the split of the curve at a fifth of the
\* duration, the slow tail, the last three milliseconds, the end and past it.
\* On each of them the curve in millionths is 1000000 exactly when ease of the
\* code returns the double 1.
StepTimes(duration) ==
    {0, 16, 1000, 2199, 2200, 5500, 9000, 10000,
     duration - 3, duration - 1, duration, duration + 7}

InitStepOut ==
    [frames |-> 0, elapsed |-> 0, rotation |-> Null, previous |-> Null,
     eased |-> Null, completed |-> FALSE]

InitStep ==
    /\ pin \in StepPlans
    /\ pout = InitStepOut
    /\ Unmounted

\* one frame of the spin pin, at a reading not before the last one
StepFrame ==
    /\ ~pout.completed
    /\ \E elapsed \in StepTimes(pin.duration) :
          /\ pout.frames = 0 \/ elapsed > pout.elapsed
          /\ LET f == animate(pin.startRotation, pin.endRotation, pin.duration, elapsed)
             IN pout' = [frames |-> IF pout.frames < 2 THEN pout.frames + 1 ELSE 2,
                         elapsed |-> elapsed, rotation |-> f.rotation,
                         previous |-> pout.rotation, eased |-> f.eased,
                         completed |-> f.completed]
    /\ UNCHANGED <<store, cookie, pin, snapshot, resp, mounted, props, st, refs, spin, timers, pending, hist>>

NextStep == StepFrame

SpecStep == InitStep /\ [][NextStep]_vars

(***************************************************************************)
(* The mounted wheel: one WheelApp and the events of its user and parent   *)
(***************************************************************************)
NoPlanInput ==
    [n |-> 1, ticket |-> UnknownTicket, r |-> 0, profile |-> "A",
     d |-> [pick |-> 0, dur |-> 0, turns |-> 0, micro |-> 0]]

WheelPropsOf(names, tickets, legacy, queue, version) ==
    [initialNames |-> names, initialTicketNumbers |-> tickets,
     fixedTicketNumber |-> legacy, fixedTicketsQueue |-> queue,
     snapshotVersion |-> version]

Names4 == <<301, 302, 303, 304>>
Tickets4 == <<1, 2, 3, 4>>
Names3 == <<301, 302, 303>>
Tickets3 == <<1, 2, 3>>
\* the props a wheel is mounted with; ticket 9 is in no list, and the last
\* two queues are not ones the storage accepts (a duplicate, four tickets)
WheelProps ==
    {WheelPropsOf(Names4, Tickets4, Null, <<1, 2, 3>>, 0),
     WheelPropsOf(Names4, Tickets4, Null, <<2, 9, 1>>, 0),
     WheelPropsOf(Names4, Tickets4, 4, <<>>, 0),
     WheelPropsOf(Names3, Tickets4, Null, <<1, 2>>, 0),
     WheelPropsOf(<<>>, <<>>, Null, <<>>, 0),
     WheelPropsOf(Names3, Tickets3, Null, <<2, 2>>, 0),
     WheelPropsOf(Names4, Tickets4, Null, <<4, 3, 2, 1>>, 0)}

\* the props a parent passes later: a new list with a queue under a new
\* snapshot version, the same version with another list, four names with
\* three ticket numbers, and an empty list
LaterProps ==
    {WheelPropsOf(Names3, Tickets3, Null, <<3, 1>>, 1),
     WheelPropsOf(Names3, Tickets3, Null, <<>>, 0),
     WheelPropsOf(Names4, Tickets3, Null, <<4>>, 0),
     WheelPropsOf(<<>>, <<>>, Null, <<>>, 0)}

InitWheel ==
    /\ pin = NoPlanInput
    /\ pout = InitPlanOut
    /\ snapshot = EmptySnapshot
    /\ resp = NoRequest
    /\ store = InitialStore
    /\ cookie = NoCookie
    /\ \E p \in WheelProps :
          LET s0 == InitialState(p.initialNames)
              R == Render(p, s0, p, s0, InitialRefs(p), {}, InitialHist)
          IN /\ mounted = TRUE
             /\ props = p
             /\ refs = R.refs
             /\ st = s0
             /\ pending = R.pending
             /\ hist = R.hist
             /\ spin = NoSpin
             /\ timers = 0

NextWheel ==
    \/ \E d \in WheelDraws : ClickSpin(d)
    \/ ClickIgnored
    \/ Frame
    \/ DriftFrame
    \/ PopupTimer
    \/ CloseWinner
    \/ RemoveWinner
    \/ NewButton
    \/ \E p \in LaterProps : PropsChange(p)
    \/ IdleUpdateNames

SpecWheel == InitWheel /\ [][NextWheel]_vars

(***************************************************************************)
(* The server: the storage module under the calls of the admin routes      *)
(***************************************************************************)
EntriesOf(names, tickets) ==
    [i \in 1 .. Len(names) |-> [ticketNumber |-> tickets[i], label |-> names[i]]]

\* the lists an admin uploads
ServerLists == {EntriesOf(Names4, Tickets4), EntriesOf(Names3, Tickets3)}
\* the bodies of the queue requests: valid queues, too long, duplicates,
\* tickets that no list holds (9) or only one list holds (4)
QueueArgs ==
    {<<>>, <<1>>, <<4>>, <<2, 1>>, <<1, 2, 3>>, <<4, 3, 2>>, <<1, 1>>, <<2, 3, 2>>,
     <<9>>, <<1, 9>>, <<1, 2, 3, 4>>, <<1, 1, 1, 1>>}
TicketArgs == {Null, 1, 4, 9}

InitServer ==
    /\ pin = NoPlanInput
    /\ pout = InitPlanOut
    /\ Unmounted

NextServer ==
    \/ \E a \in BOOLEAN, q \in QueueArgs : PostFixedTicketsQueue(a, q)
    \/ \E a \in BOOLEAN, t \in TicketArgs : PostFixedTicketNumber(a, t)
    \/ \E l \in ServerLists : ReplaceList(l)
    \/ ClearQueue
    \/ ClearTicket

SpecServer == InitServer /\ [][NextServer]_vars

(***************************************************************************)
(* lib/storage.ts under calls of its functions: drafts and publishes       *)
(***************************************************************************)
ParticipantAt(i) == [firstName |-> 300 + i, lastName |-> 400 + i, ticketNumber |-> i]
ParticipantList(n) == [i \in 1 .. n |-> ParticipantAt(i)]
\* the lists an admin puts into the draft: none, three participants, a list
\* with a ticket number twice, a list at the limit and one past it
ParticipantLists ==
    {<<>>, ParticipantList(3),
     <<ParticipantAt(1), ParticipantAt(2), [ParticipantAt(3) EXCEPT !.ticketNumber = 1]>>,
     ParticipantList(MaxEntries), ParticipantList(MaxEntries + 1)}

FixedConfig(ticketNumber, index) ==
    [NaturalConfig EXCEPT !.mode = "fixed", !.fixedWinnerTicketNumber = ticketNumber,
                          !.fixedWinnerIndex = index]
\* the configurations an admin sets: ticket 9 is in no list, index 3 is out
\* of range for three entries
SpinConfigs ==
    {NaturalConfig,
     FixedConfig(2, Undefined), FixedConfig(9, Undefined), FixedConfig(9, 0),
     FixedConfig(2, 7), FixedConfig(Undefined, Undefined), FixedConfig(Undefined, 1),
     FixedConfig(Undefined, 3), FixedConfig(Undefined, 0 - 1), FixedConfig(EmptyString, 0),
     [NaturalConfig EXCEPT !.mode = "mixed"],
     [NaturalConfig EXCEPT !.mode = "mixed",
                           !.sequence = <<[mode |-> "random", fixedWinnerIndex |-> Undefined],
                                          [mode |-> "fixed", fixedWinnerIndex |-> 0]>>]}

\* Date.now() of a publish: the timestamp of the call before, or a later one
PublishTimes == IF store.sameMs < MaxSameMs THEN {store.now, Now} ELSE {Now}

InitStorage ==
    /\ pin = NoPlanInput
    /\ pout = InitPlanOut
    /\ Unmounted

NextPublish ==
    /\ store.calls < MaxStorageCalls
    /\ \/ \E l \in ParticipantLists : SetAdminDraftEntries(l, Now)
       \/ \E c \in SpinConfigs : SetAdminDraftSpinConfig(c, Now)
       \/ ClearWheelEntries(Now)
       \/ \E t \in PublishTimes : PublishSnapshot("admin", t)

SpecPublish == InitStorage /\ [][NextPublish]_vars

\* the retention runs: a draft of one of two small lists, published again
\* and again, and replaced once when MaxSnapshots snapshots were published
NextRetention ==
    \/ /\ \/ store.calls = 0
          \/ Len(store.history) = MaxSnapshots /\ store.result.op = "publishSnapshot"
       /\ \E n \in {2, 3} : SetAdminDraftEntries(ParticipantList(n), Now)
    \/ /\ store.calls > 0
       /\ Len(store.history) < MaxPublishes
       /\ \E t \in PublishTimes : PublishSnapshot("admin", t)

SpecRetention == InitStorage /\ [][NextRetention]_vars

(***************************************************************************)
(* The admin routes under requests that carry a session cookie             *)
(***************************************************************************)
\* the cookies a request carries: none, a session of createSession, a token
\* without the '.', a session whose payload was changed after signing, a
\* payload signed with another key, a session that has expired, and one
\* that expires at time 2
AdminCookies ==
    LET valid == createSession("admin", 0)
    IN {NoCookie, valid,
        [NoCookie EXCEPT !.present = TRUE],
        [valid EXCEPT !.payload.username = "root"],
        [valid EXCEPT !.signature = Hmac("guess", valid.payload)],
        createSession("admin", 0 - SessionDuration),
        createSession("admin", 2 - SessionDuration)}

\* the files of an upload: a sheet of three participants, a text file, a
\* sheet without the ticket number column, a sheet past the row limit, a
\* sheet of a header row only, and a sheet whose rows lack the last name
SheetOf(rows) == [excelName |-> TRUE, headers |-> RequiredColumns, rows |-> rows]
UploadArgs ==
    LET good == SheetOf(ParticipantList(3))
        text == [good EXCEPT !.excelName = FALSE]
        noTicketColumn == [good EXCEPT !.headers = {"first name", "last name"}]
        tooLong == SheetOf(ParticipantList(MaxEntries + 1))
        headerOnly == SheetOf(<<>>)
        incompleteRows == SheetOf(<<[ParticipantAt(1) EXCEPT !.lastName = Blank],
                                    [ParticipantAt(2) EXCEPT !.lastName = Blank]>>)
    IN {<<>>, <<good>>, <<text>>, <<noTicketColumn>>, <<tooLong>>, <<headerOnly>>,
        <<incompleteRows>>, <<text, noTicketColumn>>, <<text, good>>}

InitAdmin ==
    /\ pin = NoPlanInput
    /\ pout = InitPlanOut
    /\ snapshot = EmptySnapshot
    /\ resp = NoRequest
    /\ mounted = FALSE
    /\ props = DefaultProps
    /\ st = InitialState(<<>>)
    /\ refs = InitialRefs(DefaultProps)
    /\ spin = NoSpin
    /\ timers = 0
    /\ pending = {}
    /\ hist = InitialHist
    /\ store = InitialStore
    /\ cookie \in AdminCookies

\* the requests: queues (valid, duplicate, unknown ticket 9), single tickets,
\* publishes with and without a spinConfig in the body
NextAdmin ==
    \/ \E files \in UploadArgs : PostUpload(isAuthenticated(cookie, Now), files)
    \/ \E q \in {<<1>>, <<2, 1>>, <<1, 1>>, <<9>>} :
          PostFixedTicketsQueue(isAuthenticated(cookie, Now), q)
    \/ \E t \in {Null, 1, 9} : PostFixedTicketNumber(isAuthenticated(cookie, Now), t)
    \/ \E o \in {NoOverride, FixedConfig(2, Undefined), FixedConfig(9, 0)} :
          PostPublish(isAuthenticated(cookie, Now), o, Now)
    \/ store.calls = 0 /\ SetAdminDraftEntries(ParticipantList(3), Now)

SpecAdmin == InitAdmin /\ [][NextAdmin]_vars

(***************************************************************************)
(* The system: the server, the page that loads the list, and its wheel     *)
(***************************************************************************)
SystemQueueArgs == {<<2, 1>>, <<3>>}

NextSystem ==
    \/ \E q \in SystemQueueArgs : PostFixedTicketsQueue(TRUE, q)
    \/ ReplaceList(EntriesOf(Names4, Tickets4))
    \/ PageLoad
    \/ \E d \in WheelDraws : ClickSpin(d)
    \/ ClickIgnored
    \/ Frame
    \/ DriftFrame
    \/ PopupTimer
    \/ CloseWinner
    \/ RemoveWinner
    \/ NewButton

SpecSystem == InitServer /\ [][NextSystem]_vars

(***************************************************************************)
(* Claims on the planner                                                   *)
(***************************************************************************)
\* C1: the rotation a targeted plan ends at is resolved by the winner
\* calculation to the list position the angle map was built from for the
\* target (8 entities T1..T8, target T3: index 2).
C1_RoundTrip ==
    (pout.stage = "resolved" /\ ~pout.fixed.threw)
        => pout.index = LastIndexOf(EntityList(pin.n), pin.ticket)

\* C8 as stated: planning a targeted spin for an identifier that is not in
\* the angle index never throws.
C8_NeverThrows ==
    (pout.stage # "input" /\ pin.ticket = UnknownTicket) => ~pout.fixed.threw

\* C8 amended: for an identifier that is not in the angle index,
\* getAngleForTicket returns null and calculateFixedSpinByTicket throws (the
\* fallback signal), and the natural plan computed afterwards for the same
\* rotation has a defined end rotation, 5 to 9 turns past the start.
C8_FallbackSignal ==
    /\ (pout.stage # "input" /\ pin.ticket = UnknownTicket)
           => (pout.fixed.threw /\ pout.lookup = Null)
    /\ (pout.stage # "input" /\ pin.ticket # UnknownTicket)
           => (~pout.fixed.threw /\ pout.lookup # Null)
    /\ (pout.stage = "natural")
           => /\ pout.natural # Null
              /\ pout.natural >= pin.r + Deg(5 * 360)
              /\ pout.natural < pin.r + Deg(9 * 360)

C8_Witness ==
    /\ pout.stage = "natural"
    /\ pin.ticket = UnknownTicket
    /\ pout.fixed.threw
    /\ pout.natural = pin.r + Deg(5 * 360)

\* C9: the micro offset added to a targeted landing angle is at most
\* 0.3 * (360 / N) in absolute value, N the number of segments.
C9_MicroOffsetBound ==
    (pout.stage # "input" /\ ~pout.fixed.threw)
        => Abs(pout.microOffset) * 10 * pin.n <= 3 * FullTurn

C9_Witness ==
    /\ pout.stage = "planned"
    /\ ~pout.fixed.threw
    /\ pin.n = 500
    /\ pin.d.micro = 0
    /\ pout.microOffset = -108

\* C21: for the same rotation, identifier, profile and draws, the planner
\* returns the same endRotation and duration (and the same failure) on two
\* angle maps that agree on ticketToAngle and differ in ticketToIndex.
C21_NoIndexInSpinMath ==
    pout.stage # "input"
        => /\ pout.reindexed.threw = pout.fixed.threw
           /\ pout.reindexed.endRotation = pout.fixed.endRotation
           /\ pout.reindexed.duration = pout.fixed.duration

C21_Witness ==
    /\ pout.stage = "planned"
    /\ ~pout.fixed.threw
    /\ pin.n = 8
    /\ pin.ticket = TicketAt(3)
    /\ LET map == buildTicketAngleMap(EntityList(pin.n))
       IN /\ ReindexedMap(map).ticketToIndex[pin.ticket] # map.ticketToIndex[pin.ticket]
          /\ ReindexedMap(map).ticketToAngle = map.ticketToAngle
    /\ pout.reindexed.endRotation = pout.fixed.endRotation
    /\ pout.reindexed.endRotation # Null

C24_LegacyRoundTrip ==
    pout.stage = "resolved" => pout.index = pin.index

(***************************************************************************)
(* Claims on the mounted wheel                                             *)
(***************************************************************************)
\* the frames of a started spin are being delivered and it has not completed
InFlight == mounted /\ refs.animationFrameRef /\ ~refs.animationCompletedRef
\* the step is a run of spinWheel that passed its guard
SpinStarts == hist'.spinsStarted = hist.spinsStarted + 1
\* the spin has completed: rotation at the planned end, outcome emitted
Settled ==
    /\ refs.animationCompletedRef
    /\ \E i \in 1 .. Len(hist.emitted) : hist.emitted[i] = spin.id
IsNaturalPlan(sp) ==
    \E d \in WheelDraws :
        sp.endRotation = NaturalEndRotation(sp.startRotation, d.turns, d.micro)

\* C2: after the wheel is initialised with a queue q1..qk of identifiers of
\* the angle map, the i-th spin (i <= k) is planned as a targeted spin for
\* qi, and every later spin is planned as a natural spin (5 to 8 turns plus
\* a random angle, 11000 ms).
C2_FifoThenNatural ==
    [][(/\ SpinStarts
        /\ ~refs.mapIsNull
        /\ \A j \in 1 .. Len(hist.initQueue) :
               hist.initQueue[j] \in DOMAIN refs.ticketAngleMapRef.ticketToAngle)
       => LET i == refs'.spinCountRef
          IN IF i <= Len(hist.initQueue)
             THEN /\ spin'.mode = "fixed"
                  /\ spin'.ticket = hist.initQueue[i]
                  /\ refs'.fixedTicketsQueueRef =
                         SubSeq(hist.initQueue, i + 1, Len(hist.initQueue))
             ELSE /\ spin'.mode = "natural"
                  /\ spin'.ticket = Null
                  /\ spin'.duration = BaseDuration
                  /\ IsNaturalPlan(spin')
                  /\ refs'.fixedTicketsQueueRef = <<>>]_vars

C2_Witness ==
    /\ hist.initQueue = <<1, 2, 3>>
    /\ hist.consumedLog = [i \in 1 .. 3 |-> [ticket |-> i, mode |-> "fixed",
                                              profile |-> Profiles[(i % 3) + 1]]]
    /\ refs.spinCountRef = 4
    /\ spin.mode = "natural"
    /\ InFlight

\* C4 as stated: while a spin is in flight no spinWheel call passes its
\* guard: the in-flight plan, the queue and the spin count stay as they are.
C4_SingleActiveSpin ==
    [][InFlight
       => /\ hist'.spinsStarted = hist.spinsStarted
          /\ spin'.startRotation = spin.startRotation
          /\ spin'.endRotation = spin.endRotation
          /\ spin'.duration = spin.duration
          /\ Len(hist'.consumedLog) = Len(hist.consumedLog)]_vars

\* C5 as stated (its safety part): a spin in flight stays in flight until it
\* settles; no event replaces or cancels it.
C5_NoCancellation ==
    [][InFlight => (spin'.id = spin.id /\ (InFlight' \/ Settled'))]_vars

\* C6: a spin's outcome is emitted (setWinner, onSpinComplete) exactly once
\* when it has reached progress 1, and not before.
C6_ExactlyOnceOutcome ==
    /\ hist.callbacks = hist.emitted
    /\ \A i, j \in 1 .. Len(hist.emitted) :
           hist.emitted[i] = hist.emitted[j] => i = j
    /\ spin.id > 0
          => /\ (\E i \in 1 .. Len(hist.emitted) : hist.emitted[i] = spin.id)
                    <=> spin.elapsed >= spin.duration
             /\ spin.elapsed >= spin.duration
                    => (refs.animationCompletedRef /\ ~refs.animationFrameRef)

C6_Witness ==
    /\ hist.emitted = <<1, 2>>
    /\ hist.callbacks = <<1, 2>>
    /\ spin.id = 2
    /\ spin.elapsed >= spin.duration
    /\ st.winner # NoWinner

\* C7: when the head of the queue is not in the angle map, the spin request
\* still starts, as a natural-mode spin of 11000 ms, and leaves the queue
\* empty.
C7_FailSafeFallback ==
    [][(/\ SpinStarts
        /\ ~refs.mapIsNull
        /\ Len(refs.fixedTicketsQueueRef) > 0
        /\ Head(refs.fixedTicketsQueueRef)
               \notin DOMAIN refs.ticketAngleMapRef.ticketToAngle)
       => /\ spin'.mode = "fallback"
          /\ spin'.ticket = Head(refs.fixedTicketsQueueRef)
          /\ spin'.duration = BaseDuration
          /\ IsNaturalPlan(spin')
          /\ refs'.fixedTicketsQueueRef = <<>>
          /\ st'.isSpinning
          /\ InFlight']_vars

C7_Witness ==
    /\ hist.initQueue = <<2, 9, 1>>
    /\ spin.mode = "fallback"
    /\ spin.ticket = 9
    /\ spin.duration = BaseDuration
    /\ refs.fixedTicketsQueueRef = <<>>
    /\ Settled

(***************************************************************************)
(* Claims on the server and on the system                                  *)
(***************************************************************************)
\* the step is the handling of a queue request by an authenticated admin
QueueRequestHandled ==
    /\ resp'.seq = resp.seq + 1
    /\ resp'.route = "fixed-tickets-queue"
    /\ resp'.authed

\* C10: a queue request with more than 3 tickets, a duplicate, or a ticket
\* that is not in the entry list is answered 400 and leaves the snapshot as
\* it was; a valid request is answered 200 and replaces the queue, and only
\* the queue, with the given sequence.
C10_AtomicQueueReplace ==
    [][QueueRequestHandled
       => LET q == resp'.tickets
              known == {snapshot.entries[i].ticketNumber : i \in 1 .. Len(snapshot.entries)}
              invalid == \/ Len(q) > 3
                         \/ \E i, j \in 1 .. Len(q) : i # j /\ q[i] = q[j]
                         \/ \E i \in 1 .. Len(q) : q[i] \notin known
          IN IF invalid
             THEN resp'.status = 400 /\ snapshot' = snapshot
             ELSE /\ resp'.status = 200
                  /\ snapshot'.fixedTicketsQueue = q
                  /\ snapshot'.entries = snapshot.entries
                  /\ snapshot'.fixedTicketNumber = snapshot.fixedTicketNumber]_vars

C10_Witness ==
    /\ resp.route = "fixed-tickets-queue"
    /\ resp.authed
    /\ resp.status = 400
    /\ resp.tickets = <<2, 3, 2>>
    /\ snapshot.fixedTicketsQueue = <<1, 2, 3>>
    /\ Len(snapshot.entries) = 4

\* C3 as stated: for one queue assignment, an identifier taken from the head
\* of the queue by a spin is not the target of a later spin.
C3_AtMostOnce ==
    \A i, j \in 1 .. Len(hist.consumedLog) :
        (i < j /\ hist.consumedLog[j].ticket = hist.consumedLog[i].ticket)
            => hist.consumedLog[j].mode # "fixed"

\* C11: after any sequence of storage calls the stored queue holds at most
\* 3 identifiers and none of them twice.
C11_QueueShape ==
    /\ Len(snapshot.fixedTicketsQueue) <= 3
    /\ \A i, j \in 1 .. Len(snapshot.fixedTicketsQueue) :
           snapshot.fixedTicketsQueue[i] = snapshot.fixedTicketsQueue[j] => i = j

C11_Witness ==
    /\ snapshot.fixedTicketsQueue = <<4, 3, 2>>
    /\ resp.route = "upload"
    /\ Len(snapshot.entries) = 3
    /\ resp.seq = MaxRequests

\* C12 as stated: a change of the props while a spin is running leaves the
\* angle map, the lists used for the winner, the queue and the spin count as
\* they are.
C12_DeferredListUpdate ==
    [][(st.isSpinning /\ props' # props)
       => /\ refs'.ticketAngleMapRef = refs.ticketAngleMapRef
          /\ refs'.mapIsNull = refs.mapIsNull
          /\ refs'.fixedTicketsQueueRef = refs.fixedTicketsQueueRef
          /\ refs'.spinCountRef = refs.spinCountRef
          /\ refs'.namesRef = refs.namesRef
          /\ refs'.ticketNumbersRef = refs.ticketNumbersRef]_vars

\* C17: while the list of spinWheel is empty (and no spin that was started
\* on an earlier list is still being animated or waits for its popup to be
\* shown or dismissed) no spin starts, and nothing but a prop change, an
\* idle-drift frame or the button 'New' changes the rotation, the spinning
\* flag, the queue, the spin count or the frozen/completed flags: a spin
\* request changes none of them.
C17_DegenerateNoOp ==
    [][(/\ mounted /\ Len(refs.namesRef) = 0
        /\ ~InFlight /\ st.winner = NoWinner /\ ~st.showWinner /\ timers = 0)
       => /\ hist'.spinsStarted = hist.spinsStarted
          /\ spin' = spin
          /\ st'.isSpinning = st.isSpinning
          /\ refs'.isFrozenRef = refs.isFrozenRef
          /\ refs'.animationCompletedRef = refs.animationCompletedRef
          /\ refs'.animationFrameRef = refs.animationFrameRef
          /\ props' = props
                => /\ refs'.fixedTicketsQueueRef = refs.fixedTicketsQueueRef
                   /\ refs'.spinCountRef = refs.spinCountRef
          /\ (hist'.drift = hist.drift /\ hist'.news = hist.news)
                => st'.finalRotation = st.finalRotation]_vars

C17_Witness ==
    /\ mounted
    /\ Len(refs.namesRef) = 0
    /\ spinWheelOutcome(st.isSpinning, refs.namesRef) = "returned"
    /\ ~st.showWinner /\ ~st.isSpinning
    /\ hist.drift = 1
    /\ hist.spinsStarted = 0
    /\ spin = NoSpin

\* C18 as stated: a spin request on an empty list ends with an outcome that
\* differs from the one of a request made while a spin is running.
C18_DegenerateReported ==
    (mounted /\ Len(refs.namesRef) = 0)
        => spinWheelOutcome(st.isSpinning, refs.namesRef)
               # spinWheelOutcome(TRUE, Names4)

\* the step is the completion branch of animate emitting its outcome
OutcomeEmitted == hist'.emitted # hist.emitted
\* the step is one frame of the idle drift
DriftStep == hist'.drift # hist.drift

\* C15 as stated: the completing frame sets the rotation to the planned
\* endRotation; while the spin is completed and its outcome is not dismissed
\* the rotation does not change; an idle-drift frame runs only when no spin
\* is running and no result is set or displayed.
C15_SettledFreeze ==
    [][/\ OutcomeEmitted => st'.finalRotation = spin.endRotation
       /\ (refs.animationCompletedRef /\ st.winner # NoWinner)
              => st'.finalRotation = st.finalRotation
       /\ DriftStep
              => (~InFlight /\ ~st.isSpinning /\ st.winner = NoWinner
                      /\ ~st.showWinner)]_vars

\* C16 as stated: a spin starts only when no outcome of an earlier spin is
\* waiting to be acknowledged.
C16_StateMachineOrder ==
    [][SpinStarts => st.winner = NoWinner]_vars

C20_ResolutionIndependent ==
    [][OutcomeEmitted
       => /\ st'.winner.index = ResolveWinner(st'.finalRotation, Len(spin.currentNames))
          /\ st'.winner.name = spin.currentNames[st'.winner.index + 1]]_vars

C20_Witness ==
    /\ Settled
    /\ hist.emitted = <<1, 2>>
    /\ Len(hist.consumedLog) = 1
    /\ hist.consumedLog[1].mode = "fixed"
    /\ spin.mode = "natural"
    /\ st.winner # NoWinner
    /\ st.winner.index = ResolveWinner(spin.endRotation, Len(spin.currentNames))

\* C22 as stated: every started spin increments the spin count, a targeted
\* spin is planned with the profile at index (spin count mod 3) of
\* [A, B, C], and a targeted spin that follows a targeted spin never has the
\* profile of that spin.
C22_ProfileRotation ==
    [][SpinStarts
       => /\ refs'.spinCountRef = refs.spinCountRef + 1
          /\ spin'.mode = "fixed"
                => /\ spin'.profile = Profiles[(refs'.spinCountRef % 3) + 1]
                   /\ spin.mode = "fixed" => spin'.profile # spin.profile]_vars

\* C22 amended: the spin count is incremented by every started spin and is 0
\* after a re-initialisation of the list; a targeted spin is planned with
\* the profile at index (spin count mod 3); a targeted spin that follows a
\* targeted spin of the same initialisation has another profile, and the
\* three targeted spins that drain a queue of three have three different
\* profiles.
C22_ProfileRoundRobin ==
    /\ [][SpinStarts => refs'.spinCountRef = refs.spinCountRef + 1]_vars
    /\ [][(SpinStarts /\ spin'.mode = "fixed")
             => /\ spin'.profile = Profiles[(refs'.spinCountRef % 3) + 1]
                /\ (spin.mode = "fixed" /\ refs.spinCountRef > 0)
                      => spin'.profile # spin.profile]_vars
    /\ [][(refs'.previousNamesRef # refs.previousNamesRef)
             => refs'.spinCountRef = 0]_vars
    /\ [](LET n == Len(hist.consumedLog)
          IN (/\ mounted
              /\ Len(hist.initQueue) = 3
              /\ refs.spinCountRef = 3
              /\ n >= 3
              /\ \A i \in n - 2 .. n : hist.consumedLog[i].mode = "fixed")
             => \A i, j \in n - 2 .. n :
                    hist.consumedLog[i].profile = hist.consumedLog[j].profile => i = j)

C22_Witness ==
    /\ Len(hist.initQueue) = 3
    /\ refs.spinCountRef = 3
    /\ Len(hist.consumedLog) = 3
    /\ \A i \in 1 .. 3 : hist.consumedLog[i].mode = "fixed"
    /\ <<hist.consumedLog[1].profile, hist.consumedLog[2].profile,
         hist.consumedLog[3].profile>> = <<"B", "C", "A">>
    /\ spin.profile = "A"
    /\ InFlight

\* the queue has more than 3 tickets or holds a ticket twice
CorruptedQueue(q) ==
    \/ Len(q) > MaxQueueLen
    \/ \E i, j \in 1 .. Len(q) : i # j /\ q[i] = q[j]

\* C25 as stated: a spin that starts after the wheel was initialised with a
\* queue of more than 3 tickets or with a duplicate is a natural spin that
\* targets no ticket, and the wheel's queue is empty.
C25_CorruptedQueueDiscarded ==
    [][(SpinStarts /\ CorruptedQueue(hist.initQueue))
       => /\ spin'.mode = "natural"
          /\ spin'.ticket = Null
          /\ refs'.fixedTicketsQueueRef = <<>>]_vars

\* the names and ticket numbers the next render hands to the list memo are
\* the ones it holds
MemoInputsUnchanged ==
    /\ props'.initialNames = refs.previousNamesRef
    /\ props'.initialTicketNumbers = refs.previousTicketNumbersRef

\* C31 as stated: once a spin has consumed the head K of the queue, no step
\* other than the start of the next spin brings K into the queue again when
\* the step belongs to the running phase of that spin (a change of the queue
\* prop included) or renders the memo with unchanged names and ticket
\* numbers.
C31_ConsumptionFinal ==
    [][(/\ mounted
        /\ spin.ticket # Null
        /\ ~SpinStarts
        /\ spin.ticket \notin SeqRange(refs.fixedTicketsQueueRef)
        /\ MemoInputsUnchanged \/ (InFlight /\ InFlight'))
       => spin.ticket \notin SeqRange(refs'.fixedTicketsQueueRef)]_vars

\* no spin is running and the list of the props is the one the memo holds
IdleAndApplied ==
    /\ mounted
    /\ ~st.isSpinning /\ ~InFlight
    /\ props.initialNames = refs.previousNamesRef
    /\ props.initialTicketNumbers = refs.previousTicketNumbersRef

\* C32 as stated: when no spin is running and the list change has been
\* applied, the angle map in use holds exactly the ticket numbers of the list
\* the winner calculation uses, in its order, one for every segment.
C32_AngleIndexTracksList ==
    IdleAndApplied
        => LET map == refs.ticketAngleMapRef
               n == Len(refs.namesRef)
           IN /\ Len(refs.ticketNumbersRef) = n
              /\ Cardinality(DOMAIN map.ticketToAngle) = n
              /\ \A i \in 1 .. n :
                    /\ refs.ticketNumbersRef[i] \in DOMAIN map.ticketToIndex
                    /\ map.ticketToIndex[refs.ticketNumbersRef[i]] = i - 1

\* C33 as stated: the name and the ticket number of an emitted winner are
\* those at the resolved index of the names and of the ticket numbers that
\* were in force when the spin started (hist.startTickets), also when other
\* props arrived while the spin was running.
C33_OutcomeOfOneEntity ==
    [][OutcomeEmitted
       => LET i == st'.winner.index
          IN /\ st'.winner.name = spin.currentNames[i + 1]
             /\ st'.winner.ticketNumber = IF i < Len(hist.startTickets)
                                          THEN hist.startTickets[i + 1] ELSE Null]_vars

\* the plan of the started spin is a targeted plan for ticket K
IsTargetedPlanFor(K) ==
    /\ ~refs.mapIsNull
    /\ \E d \in WheelDraws :
          LET res == calculateFixedSpinByTicket(st.finalRotation, K, refs.ticketAngleMapRef,
                                                Profiles[(refs'.spinCountRef % 3) + 1], d)
          IN ~res.threw /\ spin'.endRotation = res.endRotation

\* C34 as stated: a spin that removes the head K of the queue is either
\* planned as the targeted spin for K, or runs as a natural spin and leaves
\* the queue empty, also when no angle map has been built.
C34_ConsumedHeadAimedOrCleared ==
    [][(SpinStarts /\ Len(refs.fixedTicketsQueueRef) > 0)
       => LET K == Head(refs.fixedTicketsQueueRef)
          IN /\ spin'.ticket = K
             /\ \/ spin'.mode = "fixed" /\ IsTargetedPlanFor(K)
                \/ /\ spin'.mode # "fixed"
                   /\ IsNaturalPlan(spin')
                   /\ refs'.fixedTicketsQueueRef = <<>>]_vars

\* C35 as stated: every ticket of the stored queue, and the stored legacy
\* ticket when there is one, is the ticket number of an entry of the stored
\* list.
C35_QueueMembersInList ==
    LET listed == {snapshot.entries[i].ticketNumber : i \in 1 .. Len(snapshot.entries)}
    IN /\ SeqRange(snapshot.fixedTicketsQueue) \subseteq listed
       /\ snapshot.fixedTicketNumber # Null => snapshot.fixedTicketNumber \in listed

\* C37: for every final rotation, positive, zero or negative, and every list
\* of one entry or more, the winner calculation returns an index of the list;
\* when a slice holds the pointer angle it is the index of that slice (the
\* first such slice), and the slice of the nearest centre is returned only
\* when no slice holds the pointer angle.
C37_ResolverTotal ==
    pout.resolved
    => LET sliceAngle == FullTurn \div pin.n
       IN /\ pout.index \in 0 .. pin.n - 1
          /\ pout.hits # {}
                => /\ pout.index \in pout.hits
                   /\ \A i \in pout.hits : pout.index <= i
          /\ pout.hits = {}
                => \A j \in 0 .. pin.n - 1 :
                      CenterDist(pout.pointer, pout.index, sliceAngle)
                          <= CenterDist(pout.pointer, j, sliceAngle)
\* a negative rotation that leaves the pointer on the boundary of two slices
\* of a list of three or more, resolved to the slice that starts there
C37_Witness ==
    /\ pout.resolved /\ pin.frozenRot < 0 /\ pin.n >= 3
    /\ pout.index \in pout.hits /\ pout.index > 0
    /\ pout.pointer = SliceStart(pout.index, FullTurn \div pin.n)

\* C38: for every rotation and every list of one entry or more, the slice
\* that getCurrentPointerColor finds under the pointer is the slice the winner
\* calculation returns for the same rotation, and the pointer colour is the
\* colour of that winner (rotations in millidegrees, slice widths that divide
\* the turn evenly).
C38_PointerColourIsWinnerColour ==
    (pout.resolved /\ pout.colored)
    => /\ pout.pointerColor.segment = pout.index
       /\ pout.pointerColor.color = Colors[(pout.index % Len(Colors)) + 1]
\* a negative rotation that leaves the pointer on the boundary of two slices
\* of a list longer than the colour table, resolved and coloured
C38_Witness ==
    /\ pout.resolved /\ pout.colored /\ pin.frozenRot < 0
    /\ pin.n > Len(Colors) /\ pout.index >= Len(Colors)
    /\ pout.pointer = SliceStart(pout.index, FullTurn \div pin.n)
    /\ pout.pointerColor.segment = pout.index

\* C39: in every state of the mounted wheel in which no deferred update of
\* the names is outstanding, the list of names handed to the renderer is the
\* list the winner calculation and the angle map go by, also
\* after 'Remove' of a winner, after 'New' and after an idle change of the
\* names of the parent.
C39_RenderedIsDecisionList ==
    (mounted /\ pending = {}) => st.names = refs.namesRef

\* C36 as stated: every value a frame emits lies between the rotation the
\* spin started at and the rotation of its plan, no value is below the one
\* before it, the curve is below 1 on every frame before the completing one,
\* and only the completing frame emits the rotation of the plan.
C36_SteppingContract ==
    pout.frames > 0
    => /\ pin.startRotation <= pout.rotation /\ pout.rotation <= pin.endRotation
       /\ pout.previous # Null => pout.previous <= pout.rotation
       /\ ~pout.completed => pout.eased < 1000000
       /\ pout.rotation = pin.endRotation => pout.completed

\* C36 (amended): every value a frame emits lies between the rotation the spin
\* started at and the rotation of its plan, no value is below the one before
\* it, the curve never exceeds 1, and the completing frame emits exactly the
\* rotation of the plan; a frame before it may emit that rotation already.
C36_SteppingWithinPlan ==
    pout.frames > 0
    => /\ pin.startRotation <= pout.rotation /\ pout.rotation <= pin.endRotation
       /\ pout.previous # Null => pout.previous <= pout.rotation
       /\ ~pout.completed => (0 <= pout.eased /\ pout.eased <= 1000000)
       /\ pout.completed => pout.rotation = pin.endRotation
\* a frame in the last milliseconds that already shows the rotation of the
\* plan, after a frame strictly inside the spin
C36_Witness ==
    /\ pout.frames = 2 /\ ~pout.completed
    /\ pin.startRotation < pout.previous /\ pout.previous < pout.rotation
    /\ pout.rotation = pin.endRotation

(***************************************************************************)
(* Claims on the snapshot storage                                          *)
(***************************************************************************)
\* the step is a call of one of the three functions that change the draft
DraftMutation ==
    /\ store'.calls = store.calls + 1
    /\ store'.result.op \in {"setAdminDraftEntries", "setAdminDraftSpinConfig",
                             "clearWheelEntries"}
\* the step is a call of publishSnapshot
PublishCall ==
    /\ store'.calls = store.calls + 1
    /\ store'.result.op = "publishSnapshot"

\* C26: a call that changes the draft leaves what getLatestSnapshot and
\* getSnapshotByVersion return as it is, so at every time getLatestSnapshot
\* returns the snapshot (version, entries, spinConfig, metadata) that the
\* last successful publishSnapshot created.
C26_SnapshotIsolation ==
    /\ [][DraftMutation
          => /\ getLatestSnapshot(store') = getLatestSnapshot(store)
             /\ \A v \in DOMAIN store.published \cup DOMAIN store'.published :
                    getSnapshotByVersion(store', v) = getSnapshotByVersion(store, v)]_vars
    /\ [](Len(store.history) > 0
             => getLatestSnapshot(store) = store.history[Len(store.history)])

C26_Witness ==
    /\ Len(store.history) = 1
    /\ store.result.op = "clearWheelEntries"
    /\ store.draft.entries = <<>>
    /\ getLatestSnapshot(store) = store.history[1]
    /\ Len(getLatestSnapshot(store).entries) = 3
    /\ getLatestSnapshot(store).spinConfig.mode = "fixed"
    /\ getSnapshotByVersion(store, store.latest).metadata.entryCount = 3

\* the ticket numbers of the entries of a draft
DraftTickets(draft) == {draft.entries[i].ticketNumber : i \in 1 .. Len(draft.entries)}
DraftHasDuplicate(draft) == Cardinality(DraftTickets(draft)) < Len(draft.entries)
TicketGiven(cfg) ==
    cfg.fixedWinnerTicketNumber # Undefined /\ cfg.fixedWinnerTicketNumber # EmptyString
IndexInRange(draft) ==
    /\ draft.spinConfig.fixedWinnerIndex # Undefined
    /\ draft.spinConfig.fixedWinnerIndex >= 0
    /\ draft.spinConfig.fixedWinnerIndex < Len(draft.entries)
TicketPresent(draft) ==
    /\ TicketGiven(draft.spinConfig)
    /\ draft.spinConfig.fixedWinnerTicketNumber \in DraftTickets(draft)

\* a publish that must fail, and one that must succeed, on the draft of the
\* state before the call
PublishRejected ==
    /\ ~store'.result.success
    /\ Len(store'.result.errors) > 0
    /\ store'.published = store.published
    /\ store'.latest = store.latest
PublishAccepted ==
    /\ store'.result.success
    /\ store'.result.errors = <<>>
    /\ store'.latest = store'.result.snapshot.version
    /\ getLatestSnapshot(store') = store'.result.snapshot
    /\ store'.result.snapshot.entries = store.draft.entries
    /\ store'.result.snapshot.spinConfig = store.draft.spinConfig

C28_SnapshotRetention ==
    LET n == Len(store.history)
        recent == {store.history[i] : i \in (n - MinNum(n, 10) + 1) .. n}
    IN /\ Cardinality(DOMAIN store.published) <= 10
       /\ {store.published[v] : v \in DOMAIN store.published} = recent
       /\ n > 0 => /\ store.latest \in DOMAIN store.published
                   /\ getLatestSnapshot(store) # NoSnapshot

(***************************************************************************)
(* Claims on the admin routes                                              *)
(***************************************************************************)
\* the step is the request of one of the admin routes
UploadRequest == resp'.seq = resp.seq + 1 /\ resp'.route = "upload"
AdminRequest ==
    /\ resp'.seq = resp.seq + 1
    /\ resp'.route \in {"upload", "fixed-tickets-queue", "fixed-ticket-number", "publish"}

\* a file that gives the upload no participant: not an Excel name, a
\* required column missing, no row with its three values, or too many rows
FileWithoutParticipants(file) ==
    \/ ~file.excelName
    \/ ~(RequiredColumns \subseteq file.headers)
    \/ \A i \in 1 .. Len(file.rows) : ~CompleteRow(file.rows[i])
    \/ Len(file.rows) > 3000

\* C29 as stated: an upload none of whose files gives a valid participant
\* is rejected, and the entries, the fixed ticket and the queue of the wheel
\* list are after it what they were before it.
C29_InvalidUploadRejected ==
    [][(UploadRequest
          /\ \A i \in 1 .. Len(resp'.files) : FileWithoutParticipants(resp'.files[i]))
       => /\ resp'.status >= 400
          /\ snapshot'.entries = snapshot.entries
          /\ snapshot'.fixedTicketNumber = snapshot.fixedTicketNumber
          /\ snapshot'.fixedTicketsQueue = snapshot.fixedTicketsQueue]_vars

\* the session cookie of the request is missing, is not payload.signature,
\* carries a signature that is not the one of its payload, or has expired
InvalidSession ==
    \/ ~cookie.present
    \/ ~cookie.wellFormed
    \/ cookie.signature # Hmac(ServerSecret, cookie.payload)
    \/ Now > cookie.payload.expiresAt

\* C30: a request to the upload, fixed-ticket or publish route without a
\* valid session is answered with 401 and leaves the wheel list with its
\* queue, the admin draft and the published snapshots as they were; a
\* request with a valid session is not answered with 401.
C30_AdminGated ==
    /\ [][(AdminRequest /\ InvalidSession)
          => /\ resp'.status = 401
             /\ snapshot' = snapshot
             /\ store'.draft = store.draft
             /\ store'.published = store.published
             /\ store'.latest = store.latest]_vars
    /\ [][(AdminRequest /\ ~InvalidSession) => resp'.status # 401]_vars

C30_Witness ==
    /\ cookie = createSession("admin", 2 - SessionDuration)
    /\ resp.route = "publish"
    /\ resp.status = 401
    /\ Len(store.history) = 1
    /\ store.latest = store.history[1].version
    /\ Len(store.draft.entries) = 3

(***************************************************************************)
(* Claims on the angle index and the slice search                          *)
(***************************************************************************)
\* C13: every pointer angle lies in exactly one of the N slice intervals of
\* the winner calculation, so the index the search returns is the only
\* matching one (also for the slice that wraps across 0/360 and for N = 1).
C13_SegmentPartition ==
    pout.resolved
        => /\ pout.pointer >= 0 /\ pout.pointer < FullTurn
           /\ Cardinality(pout.hits) = 1
           /\ pout.hits = {pout.index}

C13_Witness ==
    /\ pout.resolved
    /\ pin.n = 3
    /\ pout.pointer = 29999
    /\ pout.hits = {0}
    /\ SliceStart(0, FullTurn \div 3) > SliceEnd(0, FullTurn \div 3)

\* C14: buildTicketAngleMap stores for the entity at position i of N the
\* angle normalize(i * w - 90 + w / 2), w = 360 / N: an angle in [0, 360),
\* the midpoint of the segment interval of i; the index of an empty list is
\* empty, and the index of N unique identifiers has N entries.
C14_AngleIndex ==
    pout.indexed
        => LET w == IF pin.n = 0 THEN FullTurn ELSE FullTurn \div pin.n
               angles == pout.map.ticketToAngle
           IN /\ DOMAIN angles = {TicketAt(i) : i \in 1 .. pin.n}
              /\ Cardinality(DOMAIN angles) = pin.n
              /\ \A i \in 1 .. pin.n :
                    LET a == angles[TicketAt(i)]
                    IN /\ a >= 0 /\ a < FullTurn
                       /\ a = Normalize360((i - 1) * w - Deg(90) + w \div 2)
                       /\ a = JsMod(SliceStart(i - 1, w) + w \div 2, FullTurn)
                       /\ SliceEnd(i - 1, w) = JsMod(a + w \div 2, FullTurn)
                       /\ InSlice(a, i - 1, w)
                       /\ pout.map.ticketToIndex[TicketAt(i)] = i - 1

C14_Witness ==
    /\ pout.indexed
    /\ pin.n = 8
    /\ pout.map.ticketToAngle[TicketAt(1)] = 292500
    /\ pout.map.ticketToAngle[TicketAt(3)] = 22500
    /\ pout.map.ticketToAngle[TicketAt(8)] = 247500

=============================================================================
